---- MODULE Spec2Model ----
(***************************************************************************)
(* rust-git-worktree: the `open` command (src/src/commands/open/mod.rs).   *)
(*                                                                         *)
(* Strings are sequences of one-character strings, so that trim, contains, *)
(* ends_with, split_once and join are computed and not assumed.  A path is *)
(* a sequence of segments, each segment a string.                          *)
(***************************************************************************)
EXTENDS Naturals, Sequences, FiniteSets, TLC

(***************************************************************************)
(* Bounds of the model.                                                    *)
(***************************************************************************)
\* invocations of `open` one process performs one after the other
MaxOpens == 2
\* windows of the tmux session before the first open
MaxInitWindows == 2
\* panes of a window before the first open
MaxInitPanes == 2
\* worktrees enumerated by find_worktrees
MaxEntries == 2
\* reviewers handed to build_create_args
MaxReviewers == 2
\* extra arguments handed to build_create_args
MaxExtraArgs == 2

(***************************************************************************)
(* String primitives (Rust std, as used by the source).                    *)
(***************************************************************************)
NL == "\n"
SP == " "
SLASH == "/"
COLON == ":"

\* char::is_whitespace, on the characters of the model
IsWhitespace(c) == c \in {SP, NL, "\t"}

\* str::trim_start
RECURSIVE TrimStart(_)
TrimStart(s) ==
    IF s # <<>> /\ IsWhitespace(Head(s)) THEN TrimStart(Tail(s)) ELSE s

\* str::trim_end
RECURSIVE TrimEnd(_)
TrimEnd(s) ==
    IF s # <<>> /\ IsWhitespace(s[Len(s)])
    THEN TrimEnd(SubSeq(s, 1, Len(s) - 1))
    ELSE s

\* str::trim
Trim(s) == TrimEnd(TrimStart(s))

\* str::contains(&str)
Contains(s, t) ==
    \E i \in 1..(Len(s) + 1) :
        /\ i + Len(t) - 1 <= Len(s)
        /\ SubSeq(s, i, i + Len(t) - 1) = t

\* str::ends_with(&str)
EndsWith(s, t) ==
    /\ Len(t) <= Len(s)
    /\ SubSeq(s, Len(s) - Len(t) + 1, Len(s)) = t

\* position of the first occurrence of character c in s, 0 when absent
FirstIndex(s, c) ==
    IF \E i \in 1..Len(s) : s[i] = c
    THEN CHOOSE i \in 1..Len(s) : s[i] = c /\ \A j \in 1..(i - 1) : s[j] # c
    ELSE 0

\* str::split_once(char): <<before, after>> around the first c, <<>> for None
SplitOnce(s, c) ==
    LET i == FirstIndex(s, c)
    IN  IF i = 0 THEN <<>>
        ELSE <<SubSeq(s, 1, i - 1), SubSeq(s, i + 1, Len(s))>>

\* str::lines: split at "\n", a final line without "\n" is kept, a final
\* empty piece is dropped
RECURSIVE Lines(_)
Lines(s) ==
    IF s = <<>> THEN <<>>
    ELSE LET i == FirstIndex(s, NL)
         IN  IF i = 0 THEN <<s>>
             ELSE <<SubSeq(s, 1, i - 1)>> \o Lines(SubSeq(s, i + 1, Len(s)))

\* [String]::join(sep)
RECURSIVE Join(_, _)
Join(parts, sep) ==
    IF parts = <<>> THEN <<>>
    ELSE IF Len(parts) = 1 THEN parts[1]
    ELSE parts[1] \o sep \o Join(Tail(parts), sep)

(***************************************************************************)
(* Names and paths of the model.                                           *)
(***************************************************************************)
\* the repository root, /p: Repo::root()
RepoRoot == << <<"p">> >>

\* Path::display of an absolute path
PathDisplay(path) == <<SLASH>> \o Join(path, <<SLASH>>)

\* execute_tmux, lines 79-83: the last segment of the repository root
ProjectName(root) ==
    IF root = <<>> THEN <<"u","n","k","n","o","w","n">> ELSE root[Len(root)]

\* the window name without the project
WindowNameNoProject(root, name) == name

\* execute_tmux, line 85: format!("{}/{}", project_name, resolved.name)
WindowName(root, name) == ProjectName(root) \o <<SLASH>> \o name

\* is_editor_command, line 248: the recognised editors
Editors ==
    << <<"v","i","m">>, <<"n","v","i","m">>, <<"n","a","n","o">>,
       <<"e","m","a","c","s">>, <<"c","o","d","e">>,
       <<"c","u","r","s","o","r">>, <<"w","e","b","s","t","o","r","m">>,
       <<"r","i","d","e","r">>, <<"i","d","e","a">> >>

\* is_editor_command comparing whole names
is_editor_command_exact(cmd) ==
    \E i \in 1..Len(Editors) : cmd = Editors[i]

\* is_editor_command, lines 247-250
is_editor_command(cmd) ==
    \E i \in 1..Len(Editors) : Contains(cmd, Editors[i])

\* the test of find_editor_pane / find_editor_pane_in_window, lines 210, 238
EditorOccupied(cmd, editor_command) ==
    Contains(cmd, editor_command) \/ is_editor_command(cmd)

(***************************************************************************)
(* State.                                                                  *)
(*   windows, cur, nextPane : the tmux server (session of the caller):     *)
(*       windows[i] = [name, panes: sequence of [id, cmd], active: id],    *)
(*       cur the index of the current window, nextPane the next pane id    *)
(*   pref     : what resolve_editor_preference returns for the repository  *)
(*   resolved : the ResolvedWorktree handed to execute_tmux                *)
(*   pc, editor_command, pane_id, log, result, error, opens, okOpens :     *)
(*       per invocation of the command (process p): its position, its      *)
(*       locals, the tmux commands it has run in this invocation, its      *)
(*       return value, and how many invocations it has started/succeeded   *)
(*   worktrees_dir, entries, disk, ident, outcome : see resolverVars       *)
(*   self_name, self_path, tmux_env, telemetry, launches : see directVars  *)
(*   hook_file, context, parent_env, hook_pc, spawned, stderr,             *)
(*       hook_result : see hookVars                                        *)
(*   entries2, outcome2, by_path : see resolverVars                        *)
(*   provider_call, create_args : see providerVars                         *)
(***************************************************************************)
VARIABLES windows, cur, nextPane, pref, resolved,
          pc, editor_command, pane_id, log, result, error, opens, okOpens,
          worktrees_dir, entries, disk, ident, outcome,
          self_name, self_path, tmux_env, telemetry, launches,
          hook_file, context, parent_env, hook_pc, spawned, stderr,
          hook_result, entries2, outcome2, by_path,
          provider_call, create_args

vars == <<windows, cur, nextPane, pref, resolved,
          pc, editor_command, pane_id, log, result, error, opens, okOpens,
          worktrees_dir, entries, disk, ident, outcome,
          self_name, self_path, tmux_env, telemetry, launches,
          hook_file, context, parent_env, hook_pc, spawned, stderr,
          hook_result, entries2, outcome2, by_path,
          provider_call, create_args>>

tmuxVars == <<windows, cur, nextPane>>

\* the resolver's world: the worktrees root as the repository reports it,
\* the relative paths find_worktrees enumerates (in its order), the
\* directories that exist (canonical paths), the identifier given on the
\* command line, and what resolve_by_name returned; then the same worktrees
\* as find_worktrees may enumerate them in another order with what
\* resolve_by_name returns for that enumeration, and what resolve_by_path
\* returned
resolverVars == <<worktrees_dir, entries, disk, ident, outcome,
                  entries2, outcome2, by_path>>

\* the provider's world: the arguments build_create_args is called with
\* and the vector it returned
providerVars == <<provider_call, create_args>>

\* the command line and what surrounds the open command outside tmux:
\* OpenCommand.name and OpenCommand.path (<<>> for None, <<v>> for Some(v)),
\* whether the TMUX environment variable is set, the calls made to
\* log_editor_launch_attempt, and the editors launch_worktree has started
directVars == <<self_name, self_path, tmux_env, telemetry, launches>>

\* the hook runner's world: what is at hook_path on disk, the HookContext
\* of the call, the environment of the calling process, the position of
\* run_hook, the hook processes started (program, working directory,
\* environment, how they ended), the warnings written to stderr, and what
\* run_hook returned
hookVars == <<hook_file, context, parent_env, hook_pc, spawned, stderr,
              hook_result>>

\* everything of the open command and of tmux
openVars == <<windows, cur, nextPane, pref, resolved,
              pc, editor_command, pane_id, log, result, error, opens, okOpens>>

Procs == {1, 2}

\* how a spawned process can end: exit status 0, exit status # 0, or
\* Command::output / Command::status returning Err (cannot be spawned)
Outcomes == {"ok", "nonzero", "spawnfail"}

(***************************************************************************)
(* The tmux server: what the commands of the source print and change.      *)
(***************************************************************************)
Digits == <<"0","1","2","3","4","5","6","7","8","9">>

\* a number in decimal
RECURSIVE Decimal(_)
Decimal(n) ==
    IF n < 10 THEN <<Digits[n + 1]>>
    ELSE Decimal(n \div 10) \o <<Digits[(n % 10) + 1]>>

\* tmux pane ids: %0, %1, ...
PaneId(n) == <<"%">> \o Decimal(n)

\* the window a -t <name> target denotes: the only window of that exact
\* name, 0 when there is none or more than one (tmux refuses the target)
TargetWindow(ws, name) ==
    LET hits == {i \in 1..Len(ws) : ws[i].name = name}
    IN  IF Cardinality(hits) = 1 THEN CHOOSE i \in hits : TRUE ELSE 0

\* the window that holds pane id, 0 when none does
WindowOfPane(ws, id) ==
    LET hits == {i \in 1..Len(ws) :
                    \E j \in 1..Len(ws[i].panes) : ws[i].panes[j].id = id}
    IN  IF hits = {} THEN 0 ELSE CHOOSE i \in hits : TRUE

\* stdout of `display-message -p "#{window_name}"`, line 99
DisplayMessageOut(ws, c) == ws[c].name \o <<NL>>

\* stdout of `list-windows -F "#{window_name}"`, line 133
RECURSIVE ListWindowsOut(_)
ListWindowsOut(ws) ==
    IF ws = <<>> THEN <<>>
    ELSE ws[1].name \o <<NL>> \o ListWindowsOut(Tail(ws))

\* stdout of `list-panes -F "#{pane_id}:#{pane_current_command}"`,
\* lines 203 and 230, for the panes of one window
RECURSIVE ListPanesOut(_)
ListPanesOut(panes) ==
    IF panes = <<>> THEN <<>>
    ELSE panes[1].id \o <<COLON>> \o panes[1].cmd \o <<NL>>
         \o ListPanesOut(Tail(panes))

\* what a query prints: nothing unless tmux ran and exited 0
Stdout(o, text) == IF o = "ok" THEN text ELSE <<>>

\* select-window -t name, line 145: the window becomes the current one
TmuxSelectWindow(ws, c, name) ==
    IF TargetWindow(ws, name) = 0 THEN c ELSE TargetWindow(ws, name)

\* select-pane -t id, lines 112 and 156: the pane becomes its window's
\* active pane
TmuxSelectPane(ws, id) ==
    [i \in 1..Len(ws) |->
        IF \E j \in 1..Len(ws[i].panes) : ws[i].panes[j].id = id
        THEN [ws[i] EXCEPT !.active = id]
        ELSE ws[i]]

\* position of pane id in a pane list, 0 when absent
PaneIndex(panes, id) ==
    IF \E j \in 1..Len(panes) : panes[j].id = id
    THEN CHOOSE j \in 1..Len(panes) : panes[j].id = id
    ELSE 0

\* split-window -h -c cwd cmd, line 277: a new pane, placed after the
\* active pane of the current window, runs the command and becomes active;
\* its pane_current_command is the program's name, the command's first word
TmuxSplitWindow(ws, c, newId, program) ==
    LET w == ws[c]
        k == PaneIndex(w.panes, w.active)
        np == [id |-> newId, cmd |-> program]
    IN  [ws EXCEPT ![c] =
            [w EXCEPT !.panes = SubSeq(w.panes, 1, k) \o <<np>>
                                \o SubSeq(w.panes, k + 1, Len(w.panes)),
                      !.active = newId]]

\* new-window -n name -c cwd program path, line 178: a new window of that
\* name with one pane running the program, added after the others
TmuxNewWindow(ws, name, newId, program) ==
    Append(ws, [name |-> name,
                panes |-> <<[id |-> newId, cmd |-> program]>>,
                active |-> newId])

(***************************************************************************)
(* The command: parsing of the query output.                               *)
(***************************************************************************)
\* the loop keeping the last editor-occupied pane instead of returning at
\* the first
RECURSIVE LastEditorPane(_, _)
LastEditorPane(lines, ed) ==
    IF lines = <<>> THEN <<>>
    ELSE LET sp == SplitOnce(lines[Len(lines)], COLON)
         IN  IF sp # <<>> /\ EditorOccupied(sp[2], ed)
             THEN <<sp[1]>>
             ELSE LastEditorPane(SubSeq(lines, 1, Len(lines) - 1), ed)

\* the loop of lines 208-216 and 236-244 over the lines of the listing:
\* <<pane_id>> for Some(pane_id), <<>> for None
RECURSIVE FirstEditorPane(_, _)
FirstEditorPane(lines, ed) ==
    IF lines = <<>> THEN <<>>
    ELSE LET sp == SplitOnce(lines[1], COLON)
         IN  IF sp # <<>> /\ EditorOccupied(sp[2], ed)
             THEN <<sp[1]>>
             ELSE FirstEditorPane(Tail(lines), ed)

\* find_editor_pane with the two halves of the line swapped: the pane id
\* is tested for the editor, the command is returned
RECURSIVE FirstEditorPaneSwapped(_, _)
FirstEditorPaneSwapped(lines, ed) ==
    IF lines = <<>> THEN <<>>
    ELSE LET sp == SplitOnce(lines[1], COLON)
         IN  IF sp # <<>> /\ EditorOccupied(sp[1], ed)
             THEN <<sp[2]>>
             ELSE FirstEditorPaneSwapped(Tail(lines), ed)

find_editor_pane_swapped(stdout, ed) ==
    FirstEditorPaneSwapped(Lines(stdout), ed)

\* find_editor_pane, lines 207-216, on the stdout of list-panes
find_editor_pane(stdout, ed) == FirstEditorPane(Lines(stdout), ed)

\* find_editor_pane_in_window, lines 235-244, on the stdout of list-panes -t
find_editor_pane_in_window(stdout, ed) == FirstEditorPane(Lines(stdout), ed)

\* lines 103-105: the current window's name as the command reads it
current_window_name(stdout) == Trim(stdout)

\* window_exists without .lines(): the whole output is compared
window_exists_whole(stdout, name) == Trim(stdout) = name

\* lines 137-140: whether list-windows names the window
window_exists(stdout, name) ==
    LET ls == Lines(stdout)
    IN  \E i \in 1..Len(ls) : Trim(ls[i]) = name

\* the window name of the worktree being opened
window_name == WindowName(RepoRoot, resolved.name)

\* lines 268-272: editor, its arguments, the path, joined by spaces
full_cmd(ed, args, path) ==
    Join(<<ed>> \o args \o <<PathDisplay(path)>>, <<SP>>)

\* one tmux invocation as the command issues it, with how it ended and the
\* stdout the command captured
Cmd(cmd, name, target, cwd, command, o, out) ==
    [cmd |-> cmd, name |-> name, target |-> target, cwd |-> cwd,
     command |-> command, status |-> o, out |-> out]

Queries == {"display-message", "list-windows", "list-panes"}
Actions == {"select-window", "select-pane", "split-window", "new-window"}

(***************************************************************************)
(* The command: one action per external call of execute_tmux, with the     *)
(* code that follows the call up to the next one.                          *)
(***************************************************************************)
\* `return Ok(())` / `return Err(..)`
Ret(p, ok, msg) ==
    /\ pc' = [pc EXCEPT ![p] = "done"]
    /\ result' = [result EXCEPT ![p] = IF ok THEN "ok" ELSE "err"]
    /\ error' = [error EXCEPT ![p] = msg]
    /\ okOpens' = [okOpens EXCEPT ![p] = IF ok THEN @ + 1 ELSE @]

\* control moves on to the next call
Goto(p, label) ==
    /\ pc' = [pc EXCEPT ![p] = label]
    /\ UNCHANGED <<result, error, okOpens>>

\* the command runs tmux
Run(p, entry) == log' = [log EXCEPT ![p] = Append(@, entry)]

\* the editor command taken as empty when none is configured
ResolveEditorLenient(p) ==
    /\ pc[p] = "start"
    /\ IF pref.tag # "Error"
       THEN /\ editor_command' = [editor_command EXCEPT ![p] = pref.command]
            /\ Goto(p, "display")
       ELSE /\ UNCHANGED editor_command
            /\ Ret(p, FALSE, "resolve_editor_preference failed")
    /\ UNCHANGED <<tmuxVars, pref, resolved, pane_id, log, opens>>
    /\ UNCHANGED resolverVars
    /\ UNCHANGED directVars
    /\ UNCHANGED hookVars
    /\ UNCHANGED providerVars

\* lines 87-95: the editor command, or the early return
ResolveEditor(p) ==
    /\ pc[p] = "start"
    /\ IF pref.tag = "Found"
       THEN /\ editor_command' = [editor_command EXCEPT ![p] = pref.command]
            /\ Goto(p, "display")
       ELSE /\ UNCHANGED editor_command
            /\ Ret(p, FALSE,
                   IF pref.tag = "Missing" THEN "No editor configured"
                   ELSE "resolve_editor_preference failed")
    /\ UNCHANGED <<tmuxVars, pref, resolved, pane_id, log, opens>>
    /\ UNCHANGED resolverVars
    /\ UNCHANGED directVars
    /\ UNCHANGED hookVars
    /\ UNCHANGED providerVars

\* lines 97-107 and 129: display-message, and the comparison with the
\* window name
DisplayMessage(p) ==
    /\ pc[p] = "display"
    /\ \E o \in Outcomes :
        LET out == Stdout(o, DisplayMessageOut(windows, cur))
        IN  /\ Run(p, Cmd("display-message", <<>>, <<>>, <<>>, <<>>, o, out))
            /\ IF o = "spawnfail"
               THEN Ret(p, FALSE, "failed to get current tmux window name")
               ELSE IF current_window_name(out) = window_name
               THEN Goto(p, "find_pane")
               ELSE Goto(p, "list_windows")
    /\ UNCHANGED <<tmuxVars, pref, resolved, editor_command, pane_id, opens>>
    /\ UNCHANGED resolverVars
    /\ UNCHANGED directVars
    /\ UNCHANGED hookVars
    /\ UNCHANGED providerVars

\* lines 109 and 200-217: list-panes of the current window
FindEditorPane(p) ==
    /\ pc[p] = "find_pane"
    /\ \E o \in Outcomes :
        LET out == Stdout(o, ListPanesOut(windows[cur].panes))
            found == find_editor_pane(out, editor_command[p])
        IN  /\ Run(p, Cmd("list-panes", <<>>, <<>>, <<>>, <<>>, o, out))
            /\ IF o = "spawnfail"
               THEN /\ Ret(p, FALSE, "failed to list tmux panes")
                    /\ UNCHANGED pane_id
               ELSE IF found # <<>>
               THEN /\ pane_id' = [pane_id EXCEPT ![p] = found[1]]
                    /\ Goto(p, "select_pane")
               ELSE /\ UNCHANGED pane_id
                    /\ Goto(p, "create_pane")
    /\ UNCHANGED <<tmuxVars, pref, resolved, editor_command, opens>>
    /\ UNCHANGED resolverVars
    /\ UNCHANGED directVars
    /\ UNCHANGED hookVars
    /\ UNCHANGED providerVars

\* how select-pane -t id ends: tmux refuses a pane that does not exist
SelectPaneOutcome(o, id) ==
    IF o = "ok" /\ WindowOfPane(windows, id) = 0 THEN "nonzero" ELSE o

\* the select-pane call falling through to the creation of a pane
SelectPaneCallFallThrough(p) ==
    \E o \in Outcomes :
        LET e == SelectPaneOutcome(o, pane_id[p])
        IN  /\ Run(p, Cmd("select-pane", <<>>, pane_id[p], <<>>, <<>>, e, <<>>))
            /\ IF e = "ok"
               THEN /\ windows' = TmuxSelectPane(windows, pane_id[p])
                    /\ Goto(p, "create_pane")
               ELSE /\ UNCHANGED windows
                    /\ Ret(p, FALSE,
                           IF e = "spawnfail" THEN "failed to select tmux pane"
                           ELSE "failed to select editor pane")

\* the select-pane call and its status check, lines 111-118 and 155-162
SelectPaneCall(p) ==
    \E o \in Outcomes :
        LET e == SelectPaneOutcome(o, pane_id[p])
        IN  /\ Run(p, Cmd("select-pane", <<>>, pane_id[p], <<>>, <<>>, e, <<>>))
            /\ IF e = "ok"
               THEN /\ windows' = TmuxSelectPane(windows, pane_id[p])
                    /\ Ret(p, TRUE, "")
               ELSE /\ UNCHANGED windows
                    /\ Ret(p, FALSE,
                           IF e = "spawnfail" THEN "failed to select tmux pane"
                           ELSE "failed to select editor pane")

\* lines 110-125: select the editor pane of the current window
SelectPane(p) ==
    /\ pc[p] = "select_pane"
    /\ SelectPaneCall(p)
    /\ UNCHANGED <<cur, nextPane, pref, resolved, editor_command, pane_id,
                   opens>>
    /\ UNCHANGED resolverVars
    /\ UNCHANGED directVars
    /\ UNCHANGED hookVars
    /\ UNCHANGED providerVars

\* lines 131-142 and 175: list-windows, and whether the window exists
ListWindows(p) ==
    /\ pc[p] = "list_windows"
    /\ \E o \in Outcomes :
        LET out == Stdout(o, ListWindowsOut(windows))
        IN  /\ Run(p, Cmd("list-windows", <<>>, <<>>, <<>>, <<>>, o, out))
            /\ IF o = "spawnfail"
               THEN Ret(p, FALSE, "failed to list tmux windows")
               ELSE IF window_exists(out, window_name)
               THEN Goto(p, "select_window")
               ELSE Goto(p, "new_window")
    /\ UNCHANGED <<tmuxVars, pref, resolved, editor_command, pane_id, opens>>
    /\ UNCHANGED resolverVars
    /\ UNCHANGED directVars
    /\ UNCHANGED hookVars
    /\ UNCHANGED providerVars

\* how select-window -t name ends: tmux refuses a target that names no
\* window, or more than one
SelectWindowOutcome(o, name) ==
    IF o = "ok" /\ TargetWindow(windows, name) = 0 THEN "nonzero" ELSE o

\* select-window with its exit status not looked at
SelectWindowUnchecked(p) ==
    /\ pc[p] = "select_window"
    /\ \E o \in Outcomes :
        LET e == SelectWindowOutcome(o, window_name)
        IN  /\ Run(p, Cmd("select-window", <<>>, window_name, <<>>, <<>>, e,
                          <<>>))
            /\ IF e = "spawnfail"
               THEN /\ UNCHANGED cur
                    /\ Ret(p, FALSE, "failed to switch to tmux window")
               ELSE /\ cur' = IF e = "ok"
                              THEN TmuxSelectWindow(windows, cur, window_name)
                              ELSE cur
                    /\ Goto(p, "find_pane_in_window")
    /\ UNCHANGED <<windows, nextPane, pref, resolved, editor_command, pane_id,
                   opens>>
    /\ UNCHANGED resolverVars
    /\ UNCHANGED directVars
    /\ UNCHANGED hookVars
    /\ UNCHANGED providerVars

\* select-window followed by the split without listing the panes
SelectWindowNoListing(p) ==
    /\ pc[p] = "select_window"
    /\ \E o \in Outcomes :
        LET e == SelectWindowOutcome(o, window_name)
        IN  /\ Run(p, Cmd("select-window", <<>>, window_name, <<>>, <<>>, e,
                          <<>>))
            /\ IF e = "ok"
               THEN /\ cur' = TmuxSelectWindow(windows, cur, window_name)
                    /\ Goto(p, "create_pane")
               ELSE /\ UNCHANGED cur
                    /\ Ret(p, FALSE,
                           IF e = "spawnfail"
                           THEN "failed to switch to tmux window"
                           ELSE "failed to switch to tmux window (exit status)")
    /\ UNCHANGED <<windows, nextPane, pref, resolved, editor_command, pane_id,
                   opens>>
    /\ UNCHANGED resolverVars
    /\ UNCHANGED directVars
    /\ UNCHANGED hookVars
    /\ UNCHANGED providerVars

\* lines 143-151: select-window
SelectWindow(p) ==
    /\ pc[p] = "select_window"
    /\ \E o \in Outcomes :
        LET e == SelectWindowOutcome(o, window_name)
        IN  /\ Run(p, Cmd("select-window", <<>>, window_name, <<>>, <<>>, e,
                          <<>>))
            /\ IF e = "ok"
               THEN /\ cur' = TmuxSelectWindow(windows, cur, window_name)
                    /\ Goto(p, "find_pane_in_window")
               ELSE /\ UNCHANGED cur
                    /\ Ret(p, FALSE,
                           IF e = "spawnfail"
                           THEN "failed to switch to tmux window"
                           ELSE "failed to switch to tmux window (exit status)")
    /\ UNCHANGED <<windows, nextPane, pref, resolved, editor_command, pane_id,
                   opens>>
    /\ UNCHANGED resolverVars
    /\ UNCHANGED directVars
    /\ UNCHANGED hookVars
    /\ UNCHANGED providerVars

\* the panes list-panes -t name prints: those of the target window
TargetPanes(name) ==
    IF TargetWindow(windows, name) = 0 THEN <<>>
    ELSE ListPanesOut(windows[TargetWindow(windows, name)].panes)

\* how list-panes -t name ends
ListPanesOutcome(o, name) ==
    IF o = "ok" /\ TargetWindow(windows, name) = 0 THEN "nonzero" ELSE o

\* lines 154 and 219-245: list-panes of the named window
FindEditorPaneInWindow(p) ==
    /\ pc[p] = "find_pane_in_window"
    /\ \E o \in Outcomes :
        LET e == ListPanesOutcome(o, window_name)
            out == Stdout(e, TargetPanes(window_name))
            found == find_editor_pane_in_window(out, editor_command[p])
        IN  /\ Run(p, Cmd("list-panes", <<>>, window_name, <<>>, <<>>, e,
                          out))
            /\ IF e = "spawnfail"
               THEN /\ Ret(p, FALSE, "failed to list tmux panes")
                    /\ UNCHANGED pane_id
               ELSE IF found # <<>>
               THEN /\ pane_id' = [pane_id EXCEPT ![p] = found[1]]
                    /\ Goto(p, "select_pane_in_window")
               ELSE /\ UNCHANGED pane_id
                    /\ Goto(p, "create_pane")
    /\ UNCHANGED <<tmuxVars, pref, resolved, editor_command, opens>>
    /\ UNCHANGED resolverVars
    /\ UNCHANGED directVars
    /\ UNCHANGED hookVars
    /\ UNCHANGED providerVars

\* lines 154-169: select the editor pane of the window switched to
SelectPaneInWindow(p) ==
    /\ pc[p] = "select_pane_in_window"
    /\ SelectPaneCall(p)
    /\ UNCHANGED <<cur, nextPane, pref, resolved, editor_command, pane_id,
                   opens>>
    /\ UNCHANGED resolverVars
    /\ UNCHANGED directVars
    /\ UNCHANGED hookVars
    /\ UNCHANGED providerVars

\* lines 259-266: the editor's arguments, read again from the preference
editor_args(pr) == IF pr.tag = "Found" THEN pr.args ELSE <<>>

\* create_editor_pane, lines 252-295: split-window running the editor
CreateEditorPane(p) ==
    /\ pc[p] = "create_pane"
    /\ IF pref.tag = "Error"
       THEN /\ Ret(p, FALSE, "resolve_editor_preference failed")
            /\ UNCHANGED <<tmuxVars, log>>
       ELSE \E o \in Outcomes :
            /\ Run(p, Cmd("split-window", <<>>, <<>>,
                          PathDisplay(resolved.path),
                          <<full_cmd(editor_command[p], editor_args(pref),
                                     resolved.path)>>, o, <<>>))
            /\ IF o = "ok"
               THEN /\ windows' = TmuxSplitWindow(windows, cur,
                                       PaneId(nextPane), editor_command[p])
                    /\ nextPane' = nextPane + 1
                    /\ Ret(p, TRUE, "")
               ELSE /\ UNCHANGED <<windows, nextPane>>
                    /\ Ret(p, FALSE,
                           IF o = "spawnfail"
                           THEN "failed to create tmux pane with editor"
                           ELSE "failed to create editor pane")
            /\ UNCHANGED cur
    /\ UNCHANGED <<pref, resolved, editor_command, pane_id, opens>>
    /\ UNCHANGED resolverVars
    /\ UNCHANGED directVars
    /\ UNCHANGED hookVars
    /\ UNCHANGED providerVars

\* lines 175-197: new-window running the editor
NewWindow(p) ==
    /\ pc[p] = "new_window"
    /\ \E o \in Outcomes :
        /\ Run(p, Cmd("new-window", window_name, <<>>,
                      PathDisplay(resolved.path),
                      <<editor_command[p], PathDisplay(resolved.path)>>, o,
                      <<>>))
        /\ IF o = "ok"
           THEN /\ windows' = TmuxNewWindow(windows, window_name,
                                   PaneId(nextPane), editor_command[p])
                /\ cur' = Len(windows) + 1
                /\ nextPane' = nextPane + 1
                /\ Ret(p, TRUE, "")
           ELSE /\ UNCHANGED tmuxVars
                /\ Ret(p, FALSE,
                       IF o = "spawnfail"
                       THEN "failed to create tmux window with editor"
                       ELSE "failed to create tmux window (exit status)")
    /\ UNCHANGED <<pref, resolved, editor_command, pane_id, opens>>
    /\ UNCHANGED resolverVars
    /\ UNCHANGED directVars
    /\ UNCHANGED hookVars
    /\ UNCHANGED providerVars

\* the user runs the command again, once the previous run has returned
Reopen(p) ==
    /\ pc[p] = "done"
    /\ opens[p] < MaxOpens
    /\ pc' = [pc EXCEPT ![p] = "start"]
    /\ opens' = [opens EXCEPT ![p] = @ + 1]
    /\ log' = [log EXCEPT ![p] = <<>>]
    /\ result' = [result EXCEPT ![p] = "none"]
    /\ error' = [error EXCEPT ![p] = ""]
    /\ editor_command' = [editor_command EXCEPT ![p] = <<>>]
    /\ pane_id' = [pane_id EXCEPT ![p] = <<>>]
    /\ UNCHANGED <<tmuxVars, pref, resolved, okOpens>>
    /\ UNCHANGED resolverVars
    /\ UNCHANGED directVars
    /\ UNCHANGED hookVars
    /\ UNCHANGED providerVars

(***************************************************************************)
(* The resolver: resolve_by_name, lines 321-381.  /l is a symbolic link to *)
(* /p, the only one of the model; a directory exists when its canonical    *)
(* path is in `disk`.                                                      *)
(***************************************************************************)
\* Path::canonicalize: symbolic links resolved
Canonicalize(path) ==
    IF path # <<>> /\ path[1] = <<"l">>
    THEN << <<"p">> >> \o Tail(path)
    ELSE path

\* a test of existence that never fails
ExistsUnchecked(path, dk) == TRUE

\* Path::exists
Exists(path, dk) == Canonicalize(path) \in dk

\* commands::list::format_worktree: the relative path with its separators
format_worktree(rel) == Join(rel, <<SLASH>>)

\* Path::file_name: <<segment>> for Some(segment), <<>> for None
file_name(rel) == IF rel = <<>> THEN <<>> ELSE <<rel[Len(rel)]>>

\* the match with a raw suffix test, without the "/" boundary
is_match_raw_suffix(rel, name) ==
    LET display == format_worktree(rel)
    IN  \/ display = name
        \/ EndsWith(display, name)
        \/ file_name(rel) = <<name>>

\* lines 328-335: whether an enumerated worktree matches the identifier
is_match(rel, name) ==
    LET display == format_worktree(rel)
    IN  \/ display = name
        \/ EndsWith(display, <<SLASH>> \o name)
        \/ file_name(rel) = <<name>>

\* lines 325-340: the <<display, rel>> pairs that match, in enumeration order
RECURSIVE Matches(_, _)
Matches(es, name) ==
    IF es = <<>> THEN <<>>
    ELSE (IF is_match(es[1], name)
          THEN << <<format_worktree(es[1]), es[1]>> >>
          ELSE <<>>) \o Matches(Tail(es), name)

\* the list of an ambiguity error naming the last segments only
ambiguous_names_short(matches) ==
    Join([i \in 1..Len(matches) |-> matches[i][2][Len(matches[i][2])]],
         <<",", SP>>)

\* lines 350-354: the display forms of the matches, joined by ", "
ambiguous_names(matches) ==
    Join([i \in 1..Len(matches) |-> matches[i][1]], <<",", SP>>)

\* a resolver that takes the first match of the enumeration when several
\* worktrees match, where lines 349-360 report the ambiguity
resolve_by_name_first_match(name, dir, es, dk) ==
    LET matches == Matches(es, name)
    IN  IF matches = <<>>
        THEN [tag |-> "NotFound", name |-> name, path |-> <<>>,
              names |-> <<>>]
        ELSE LET display == matches[1][1]
                 absolute == dir \o matches[1][2]
             IN  IF ~Exists(absolute, dk)
                 THEN [tag |-> "MissingOnDisk", name |-> display,
                       path |-> absolute, names |-> <<>>]
                 ELSE [tag |-> "Ok", name |-> display,
                       path |-> Canonicalize(absolute), names |-> <<>>]

\* resolve_by_name, lines 321-381: Ok(ResolvedWorktree{name, path}) or the
\* error, with what its message names
resolve_by_name(name, dir, es, dk) ==
    LET matches == Matches(es, name)
    IN  IF matches = <<>>
        THEN [tag |-> "NotFound", name |-> name, path |-> <<>>,
              names |-> <<>>]
        ELSE IF Len(matches) > 1
        THEN [tag |-> "Ambiguous", name |-> name, path |-> <<>>,
              names |-> ambiguous_names(matches)]
        ELSE LET display == matches[1][1]
                 absolute == dir \o matches[1][2]
             IN  IF ~Exists(absolute, dk)
                 THEN [tag |-> "MissingOnDisk", name |-> display,
                       path |-> absolute, names |-> <<>>]
                 ELSE [tag |-> "Ok", name |-> display,
                       path |-> Canonicalize(absolute), names |-> <<>>]

\* nothing resolved yet
NoOutcome == [tag |-> "none", name |-> <<>>, path |-> <<>>, names |-> <<>>]

\* OpenCommand::resolve_target with a name, lines 302-306
ResolveByName ==
    /\ outcome = NoOutcome
    /\ outcome' = resolve_by_name(ident, worktrees_dir, entries, disk)
    /\ UNCHANGED <<worktrees_dir, entries, disk, ident>>
    /\ UNCHANGED <<entries2, outcome2, by_path>>
    /\ UNCHANGED openVars
    /\ UNCHANGED directVars
    /\ UNCHANGED hookVars
    /\ UNCHANGED providerVars

\* resolve_by_name once more, find_worktrees having returned the same
\* worktrees in the order of entries2
ResolveReordered ==
    /\ outcome # NoOutcome
    /\ outcome2 = NoOutcome
    /\ outcome2' = resolve_by_name(ident, worktrees_dir, entries2, disk)
    /\ UNCHANGED <<worktrees_dir, entries, disk, ident>>
    /\ UNCHANGED <<outcome, entries2, by_path>>
    /\ UNCHANGED openVars
    /\ UNCHANGED directVars
    /\ UNCHANGED hookVars
    /\ UNCHANGED providerVars

(***************************************************************************)
(* The hook runner: hooks/mod.rs, HookRunner::run_hook, lines 58-112, on a *)
(* unix build.  Names, branches and paths of a HookContext are whole       *)
(* values here; Option<String> is <<>> for None and <<v>> for Some(v).     *)
(***************************************************************************)
\* HookRunner.rsworktree_dir
rsworktree_dir == << "r" >>

\* lines 9, 50-56 and HookName::as_str: <rsworktree_dir>/hooks/post-create
hook_path == rsworktree_dir \o << "hooks", "post-create" >>

\* the permission bits of 0o111: owner, group and other execute
ExecBits == {64, 8, 1}

\* line 61: hook_path.exists()
hook_exists(f) == f.kind # "absent"

\* the test of existence taken for the test of permission
is_executable_exists(f) == f.kind # "absent"

\* is_executable, lines 115-121: mode & 0o111 != 0, false when the
\* metadata cannot be read
is_executable(f) ==
    /\ f.kind # "absent"
    /\ \E b \in ExecBits : (f.mode \div b) % 2 = 1

\* the variables run_hook sets
HookEnvNames ==
    {"RSWORKTREE_NAME", "RSWORKTREE_PATH", "RSWORKTREE_BRANCH",
     "RSWORKTREE_BASE_BRANCH", "RSWORKTREE_BASE_PATH"}

\* the environment with the base branch left as inherited when absent
hook_env_skip_absent(env, ctx) ==
    [v \in DOMAIN env |->
        IF v = "RSWORKTREE_NAME" THEN <<ctx.worktree_name>>
        ELSE IF v = "RSWORKTREE_PATH" THEN <<ctx.worktree_path>>
        ELSE IF v = "RSWORKTREE_BRANCH" THEN <<ctx.branch>>
        ELSE IF v = "RSWORKTREE_BASE_BRANCH" /\ ctx.base_branch # <<>>
        THEN ctx.base_branch
        ELSE IF v = "RSWORKTREE_BASE_PATH" THEN <<ctx.base_path>>
        ELSE env[v]]

\* lines 88-95: the inherited environment with the five variables set;
\* a variable is <<>> when unset and <<value>> when set
hook_env(env, ctx) ==
    [v \in DOMAIN env |->
        IF v = "RSWORKTREE_NAME" THEN <<ctx.worktree_name>>
        ELSE IF v = "RSWORKTREE_PATH" THEN <<ctx.worktree_path>>
        ELSE IF v = "RSWORKTREE_BRANCH" THEN <<ctx.branch>>
        ELSE IF v = "RSWORKTREE_BASE_BRANCH"
        THEN (IF ctx.base_branch = <<>> THEN <<"">> ELSE ctx.base_branch)
        ELSE IF v = "RSWORKTREE_BASE_PATH" THEN <<ctx.base_path>>
        ELSE env[v]]

\* how Command::status() can end: Err (no process), an exit code, or the
\* process killed by a signal (status.code() is None)
HookOutcomes ==
    {[tag |-> "spawnfail", code |-> 0], [tag |-> "signal", code |-> 0]}
    \cup {[tag |-> "exit", code |-> c] : c \in {0, 1, 3, 255}}

\* line 102: status.code().unwrap_or(-1), as {code} prints it
exit_code_text(o) ==
    IF o.tag = "signal" THEN <<"-", "1">> ELSE Decimal(o.code)

\* lines 103-108: the warning of a hook that did not succeed
exit_warning(o) ==
    <<"Warning: hook ", "post-create", " exited with code ">>
    \o exit_code_text(o)

\* lines 66-75: the warning of a hook that is not executable
not_executable_warning ==
    <<"Warning: hook ">> \o hook_path
    \o <<" exists but is not executable.">>

\* the process Command::new(&hook_path)...status() runs
HookProcess(o) ==
    [program |-> hook_path, cwd |-> context.worktree_path,
     env |-> hook_env(parent_env, context), ended |-> o]

\* what run_hook leaves: its return value, the warnings, the processes
HookReturn(res, warnings, procs) ==
    /\ hook_pc' = "done"
    /\ hook_result' = res
    /\ stderr' = stderr \o warnings
    /\ spawned' = spawned \o procs
    /\ UNCHANGED <<hook_file, context, parent_env>>
    /\ UNCHANGED <<resolverVars, directVars, openVars>>
    /\ UNCHANGED providerVars

\* run_hook returning the failure of a hook that exited non-zero
RunHookStrict ==
    /\ hook_pc = "ready"
    /\ IF ~hook_exists(hook_file)
       THEN HookReturn("Ok", <<>>, <<>>)
       ELSE IF ~is_executable(hook_file)
       THEN HookReturn("Ok", <<not_executable_warning>>, <<>>)
       ELSE \E o \in HookOutcomes :
               IF o.tag = "spawnfail"
               THEN HookReturn("Err", <<>>, <<>>)
               ELSE IF o.tag = "exit" /\ o.code = 0
               THEN HookReturn("Ok", <<>>, <<HookProcess(o)>>)
               ELSE HookReturn("Err", <<exit_warning(o)>>,
                               <<HookProcess(o)>>)

\* HookRunner::run_hook, lines 58-112
RunHook ==
    /\ hook_pc = "ready"
    /\ IF ~hook_exists(hook_file)
       THEN HookReturn("Ok", <<>>, <<>>)
       ELSE IF ~is_executable(hook_file)
       THEN HookReturn("Ok", <<not_executable_warning>>, <<>>)
       ELSE \E o \in HookOutcomes :
               IF o.tag = "spawnfail"
               THEN HookReturn("Err", <<>>, <<>>)
               ELSE IF o.tag = "exit" /\ o.code = 0
               THEN HookReturn("Ok", <<>>, <<HookProcess(o)>>)
               ELSE HookReturn("Ok", <<exit_warning(o)>>,
                               <<HookProcess(o)>>)

\* no hook is being run
HookIdle ==
    /\ hook_file = [kind |-> "absent", mode |-> 0]
    /\ context = [worktree_name |-> "test", worktree_path |-> "/w/a",
                  branch |-> "feature/test", base_branch |-> <<>>,
                  base_path |-> "/p"]
    /\ parent_env = [v \in HookEnvNames |-> <<>>]
    /\ hook_pc = "off"
    /\ spawned = <<>>
    /\ stderr = <<>>
    /\ hook_result = "none"

(***************************************************************************)
(* The provider: provider/mod.rs, GitProvider::build_create_args, lines    *)
(* 48-108.  Arguments are whole values.                                    *)
(***************************************************************************)
\* build_create_args with the extra arguments ahead of the reviewers
build_create_args_extras_first(self, branch, draft, fill, web, reviewers, extra_args) ==
    LET prefix == IF self = "GitHub"
                  THEN <<"pr", "create", "--head", branch>>
                  ELSE <<"mr", "create", "--source-branch", branch>>
        RECURSIVE Rev(_)
        Rev(rs) == IF rs = <<>> THEN <<>>
                   ELSE <<"--reviewer", Head(rs)>> \o Rev(Tail(rs))
    IN  prefix
        \o (IF draft THEN <<"--draft">> ELSE <<>>)
        \o (IF fill THEN <<"--fill">> ELSE <<>>)
        \o (IF web THEN <<"--web">> ELSE <<>>)
        \o extra_args
        \o Rev(reviewers)

\* GitProvider::build_create_args, lines 48-108
build_create_args(self, branch, draft, fill, web, reviewers, extra_args) ==
    LET args0 == IF self = "GitHub" THEN <<"pr", "create">>
                 ELSE <<"mr", "create">>
        args1 == IF self = "GitHub"
                 THEN args0 \o <<"--head", branch>>
                 ELSE args0 \o <<"--source-branch", branch>>
        args2 == IF draft THEN Append(args1, "--draft") ELSE args1
        args3 == IF fill THEN Append(args2, "--fill") ELSE args2
        args4 == IF web THEN Append(args3, "--web") ELSE args3
        RECURSIVE Push(_, _)
        Push(args, rs) ==
            IF rs = <<>> THEN args
            ELSE Push(args \o <<"--reviewer", Head(rs)>>, Tail(rs))
    IN  Push(args4, reviewers) \o extra_args

\* build_create_args has not been called
NoCall ==
    [self |-> "GitHub", branch |-> "", draft |-> FALSE, fill |-> FALSE,
     web |-> FALSE, reviewers |-> <<>>, extra_args |-> <<>>]

\* a caller builds the arguments of `gh pr create` / `glab mr create`
BuildCreateArgs ==
    /\ create_args = <<>>
    /\ provider_call # NoCall
    /\ create_args' =
           build_create_args(provider_call.self, provider_call.branch,
                             provider_call.draft, provider_call.fill,
                             provider_call.web, provider_call.reviewers,
                             provider_call.extra_args)
    /\ UNCHANGED provider_call
    /\ UNCHANGED <<resolverVars, directVars, openVars, hookVars>>

\* no provider call is being made
ProviderIdle ==
    /\ provider_call = NoCall
    /\ create_args = <<>>

(***************************************************************************)
(* Initial states: the tmux session the command is run in, the editor      *)
(* preference of the repository, the worktree to open.                     *)
(***************************************************************************)
\* Repo::ensure_worktrees_dir(): the worktrees root, /p/w
WorktreesDir == RepoRoot \o << <<"w">> >>

sh == <<"s","h">>
vim == <<"v","i","m">>
hx == <<"h","x">>
decode == <<"d","e","c","o","d","e">>

\* what a pane can be running before the first open: a shell, an editor of
\* the list, an editor that is not on the list, a program that is no editor
PaneCmds == {sh, vim, hx, decode}

\* EditorPreferenceResolution::Found / ::Missing, or Err
Prefs ==
    { [tag |-> "Found", command |-> vim, args |-> <<>>],
      [tag |-> "Found", command |-> hx, args |-> << <<"-","w">> >>],
      [tag |-> "Missing", command |-> <<>>, args |-> <<>>],
      [tag |-> "Error", command |-> <<>>, args |-> <<>>] }

\* the worktrees root reached through the symbolic link /l
LinkedWorktreesDir == << <<"l">>, <<"w">> >>

\* the relative paths find_worktrees can enumerate: f, a/f, b/f, b/a/f,
\* xf, g
RelPaths ==
    { << <<"f">> >>, << <<"a">>, <<"f">> >>, << <<"b">>, <<"f">> >>,
      << <<"b">>, <<"a">>, <<"f">> >>, << <<"x","f">> >>, << <<"g">> >> }

\* the identifiers given on the command line: every display form, every
\* segment, and a name of no worktree
Idents ==
    {format_worktree(r) : r \in RelPaths}
        \cup UNION {{r[i] : i \in 1..Len(r)} : r \in RelPaths}
        \cup {<<"z">>}

\* the enumerations: up to MaxEntries different worktrees, in any order
Enumerations ==
    UNION {{e \in [1..n -> RelPaths] :
               \A i, j \in 1..n : i # j => e[i] # e[j]}
           : n \in 0..MaxEntries}

\* the canonical directory of an enumerated worktree
CanonicalDir(rel) == WorktreesDir \o rel

\* the orders in which find_worktrees can return the same worktrees
Reorderings(es) ==
    {e \in [1..Len(es) -> {es[i] : i \in 1..Len(es)}] :
        \A i \in 1..Len(es) : \E j \in 1..Len(es) : e[j] = es[i]}

\* the paths a user can give for the enumerated worktrees: under the
\* worktrees root as the command knows it, or in canonical form
PathsOf(dir, es) ==
    {dir \o es[i] : i \in 1..Len(es)}
        \cup {CanonicalDir(es[i]) : i \in 1..Len(es)}

\* the names of the other windows of the session
OtherWindows == {<<"o">>, <<"q">>}

\* the pane lists the worktree's window can start with
InitCmdSeqs == UNION {[1..n -> PaneCmds] : n \in 1..MaxInitPanes}

\* a window of the initial session: its panes get the ids from `first` on,
\* and its first pane is the active one
MkWindow(name, cmds, first) ==
    [name |-> name,
     panes |-> [j \in 1..Len(cmds) |->
                  [id |-> PaneId(first + j - 1), cmd |-> cmds[j]]],
     active |-> PaneId(first)]

\* the sessions the command starts in: up to MaxInitWindows windows of
\* distinct names, in any order; the worktree's window, when there is one,
\* holds any of InitCmdSeqs, every other window a single shell (the command
\* never lists the panes of a window of another name)
InitSessions(target) ==
    UNION {
        { [i \in 1..n |->
              MkWindow(ns[i], IF ns[i] = target THEN cs ELSE <<sh>>,
                       (i - 1) * MaxInitPanes)]
          : ns \in {f \in [1..n -> OtherWindows \cup {target}] :
                       \A i, j \in 1..n : i # j => f[i] # f[j]},
            cs \in InitCmdSeqs }
        : n \in 1..MaxInitWindows }

\* the open command: the worktree f has been resolved by its name
InitCommon ==
    /\ pref \in Prefs
    /\ worktrees_dir = WorktreesDir
    /\ entries = << << <<"f">> >> >>
    /\ disk = {CanonicalDir(<< <<"f">> >>)}
    /\ ident = <<"f">>
    /\ outcome = resolve_by_name(ident, worktrees_dir, entries, disk)
    /\ entries2 = entries
    /\ outcome2 = NoOutcome
    /\ by_path = NoOutcome
    /\ resolved = [name |-> outcome.name, path |-> outcome.path]
    /\ windows \in InitSessions(WindowName(RepoRoot, resolved.name))
    /\ cur \in 1..Len(windows)
    /\ nextPane = MaxInitWindows * MaxInitPanes
    /\ editor_command = [p \in Procs |-> <<>>]
    /\ pane_id = [p \in Procs |-> <<>>]
    /\ log = [p \in Procs |-> <<>>]
    /\ result = [p \in Procs |-> "none"]
    /\ error = [p \in Procs |-> ""]
    /\ okOpens = [p \in Procs |-> 0]
    /\ self_name = <<ident>>
    /\ self_path = <<>>
    /\ tmux_env = TRUE
    /\ telemetry = <<>>
    /\ launches = <<>>
    /\ HookIdle
    /\ ProviderIdle

\* one user: process 1 runs the command, again and again
Init ==
    /\ InitCommon
    /\ pc = [p \in Procs |-> IF p = 1 THEN "start" ELSE "off"]
    /\ opens = [p \in Procs |-> IF p = 1 THEN 1 ELSE 0]

Next ==
    \E p \in Procs :
        \/ ResolveEditor(p)
        \/ DisplayMessage(p)
        \/ FindEditorPane(p)
        \/ SelectPane(p)
        \/ ListWindows(p)
        \/ SelectWindow(p)
        \/ FindEditorPaneInWindow(p)
        \/ SelectPaneInWindow(p)
        \/ CreateEditorPane(p)
        \/ NewWindow(p)
        \/ Reopen(p)

Spec == Init /\ [][Next]_vars

\* the resolver alone: any enumeration, any of its directories missing, any
\* identifier; no open command runs
InitResolve ==
    /\ worktrees_dir \in {WorktreesDir, LinkedWorktreesDir}
    /\ entries \in Enumerations
    /\ disk \in SUBSET {CanonicalDir(entries[i]) : i \in 1..Len(entries)}
    /\ ident \in Idents
    /\ outcome = NoOutcome
    /\ entries2 \in Reorderings(entries)
    /\ outcome2 = NoOutcome
    /\ by_path = NoOutcome
    /\ pref = [tag |-> "Missing", command |-> <<>>, args |-> <<>>]
    /\ resolved = [name |-> <<>>, path |-> <<>>]
    /\ windows = <<MkWindow(<<"o">>, <<sh>>, 0)>>
    /\ cur = 1
    /\ nextPane = 1
    /\ pc = [p \in Procs |-> "off"]
    /\ editor_command = [p \in Procs |-> <<>>]
    /\ pane_id = [p \in Procs |-> <<>>]
    /\ log = [p \in Procs |-> <<>>]
    /\ result = [p \in Procs |-> "none"]
    /\ error = [p \in Procs |-> ""]
    /\ opens = [p \in Procs |-> 0]
    /\ okOpens = [p \in Procs |-> 0]
    /\ self_name = <<ident>>
    /\ self_path \in {<<>>} \cup {<<q>> : q \in PathsOf(worktrees_dir, entries)}
    /\ tmux_env = FALSE
    /\ telemetry = <<>>
    /\ launches = <<>>
    /\ HookIdle
    /\ ProviderIdle

(***************************************************************************)
(* The whole command: OpenCommand::execute, lines 24-33, from the command  *)
(* line to its return value, with the direct launch of lines 35-76.        *)
(***************************************************************************)
\* Path::strip_prefix succeeds: base is a leading run of whole components
StartsWithPath(path, base) ==
    /\ Len(base) <= Len(path)
    /\ SubSeq(path, 1, Len(base)) = base

\* resolve_by_path, lines 383-408
resolve_by_path(path, dir, dk) ==
    IF ~Exists(path, dk)
    THEN [tag |-> "PathNotFound", name |-> <<>>, path |-> path,
          names |-> <<>>]
    ELSE LET canonical == Canonicalize(path)
             display ==
                 IF StartsWithPath(canonical, dir)
                 THEN format_worktree(
                          SubSeq(canonical, Len(dir) + 1, Len(canonical)))
                 ELSE IF canonical # <<>>
                 THEN canonical[Len(canonical)]
                 ELSE PathDisplay(canonical)
         IN  [tag |-> "Ok", name |-> display, path |-> canonical,
              names |-> <<>>]

\* OpenCommand::resolve_target with a path, lines 299-300: the same
\* worktree named by its path
ResolveByPath ==
    /\ outcome2 # NoOutcome
    /\ by_path = NoOutcome
    /\ self_path # <<>>
    /\ by_path' = resolve_by_path(self_path[1], worktrees_dir, disk)
    /\ UNCHANGED <<worktrees_dir, entries, disk, ident>>
    /\ UNCHANGED <<outcome, entries2, outcome2>>
    /\ UNCHANGED openVars
    /\ UNCHANGED directVars
    /\ UNCHANGED hookVars
    /\ UNCHANGED providerVars

NextResolve ==
    \/ ResolveByName
    \/ ResolveReordered
    \/ ResolveByPath

SpecResolve == InitResolve /\ [][NextResolve]_vars

\* resolve_target taking the name when both are given
resolve_target_name_first(name, path, dir, es, dk) ==
    IF name # <<>> THEN resolve_by_name(name[1], dir, es, dk)
    ELSE IF path # <<>> THEN resolve_by_path(path[1], dir, dk)
    ELSE [tag |-> "NoTarget", name |-> <<>>, path |-> <<>>, names |-> <<>>]

\* OpenCommand::resolve_target, lines 297-307
resolve_target(name, path, dir, es, dk) ==
    IF path # <<>> THEN resolve_by_path(path[1], dir, dk)
    ELSE IF name = <<>>
    THEN [tag |-> "NoTarget", name |-> <<>>, path |-> <<>>, names |-> <<>>]
    ELSE resolve_by_name(name[1], dir, es, dk)

\* editor::launch_worktree: what a launch can return for a preference.
\* ok = FALSE is Err(error); spawned tells whether an editor was started
launch_worktree(pr) ==
    IF pr.tag = "Missing"
    THEN {[ok |-> TRUE, status |-> "PreferenceMissing", spawned |-> FALSE]}
    ELSE IF pr.tag = "Found"
    THEN {[ok |-> TRUE, status |-> "Success", spawned |-> TRUE],
          [ok |-> TRUE, status |-> "ConfigurationError", spawned |-> FALSE],
          [ok |-> FALSE, status |-> "none", spawned |-> FALSE]}
    ELSE {[ok |-> TRUE, status |-> "ConfigurationError", spawned |-> FALSE],
          [ok |-> FALSE, status |-> "none", spawned |-> FALSE]}

\* telemetry::log_editor_launch_attempt(name, path, status, message)
log_editor_launch_attempt(name, path, status) ==
    telemetry' = Append(telemetry,
                        [name |-> name, path |-> path, status |-> status])

\* execute going on whatever resolve_target returned
ResolveTargetUnchecked(p) ==
    /\ pc[p] = "execute"
    /\ outcome' = resolve_target(self_name, self_path, worktrees_dir,
                                 entries, disk)
    /\ resolved' = [name |-> outcome'.name, path |-> outcome'.path]
    /\ Goto(p, IF tmux_env THEN "start" ELSE "direct")
    /\ UNCHANGED <<tmuxVars, pref, editor_command, pane_id, log, opens>>
    /\ UNCHANGED <<worktrees_dir, entries, disk, ident>>
    /\ UNCHANGED <<entries2, outcome2, by_path>>
    /\ UNCHANGED directVars
    /\ UNCHANGED hookVars
    /\ UNCHANGED providerVars

\* execute, lines 24-33: resolve the target, then take the tmux branch when
\* TMUX is set and the direct launch otherwise
ResolveTarget(p) ==
    /\ pc[p] = "execute"
    /\ outcome' = resolve_target(self_name, self_path, worktrees_dir,
                                 entries, disk)
    /\ IF outcome'.tag = "Ok"
       THEN /\ resolved' = [name |-> outcome'.name, path |-> outcome'.path]
            /\ Goto(p, IF tmux_env THEN "start" ELSE "direct")
       ELSE /\ Ret(p, FALSE, outcome'.tag)
            /\ UNCHANGED resolved
    /\ UNCHANGED <<tmuxVars, pref, editor_command, pane_id, log, opens>>
    /\ UNCHANGED <<worktrees_dir, entries, disk, ident>>
    /\ UNCHANGED <<entries2, outcome2, by_path>>
    /\ UNCHANGED directVars
    /\ UNCHANGED hookVars
    /\ UNCHANGED providerVars

\* the direct launch logging only a launch that returned
ExecuteDirectLogOnOk(p) ==
    /\ pc[p] = "direct"
    /\ \E l \in launch_worktree(pref) :
          /\ launches' = IF l.spawned
                         THEN Append(launches, resolved.path)
                         ELSE launches
          /\ IF l.ok
             THEN /\ log_editor_launch_attempt(resolved.name, resolved.path,
                                               l.status)
                  /\ Ret(p, l.status \in {"Success", "PreferenceMissing"},
                         l.status)
             ELSE /\ UNCHANGED telemetry
                  /\ Ret(p, FALSE, "launch failed")
    /\ UNCHANGED <<tmuxVars, pref, resolved, editor_command, pane_id, log,
                   opens>>
    /\ UNCHANGED resolverVars
    /\ UNCHANGED <<self_name, self_path, tmux_env>>
    /\ UNCHANGED hookVars
    /\ UNCHANGED providerVars

\* the direct launch returning Ok(()) for every outcome status
ExecuteDirectLenient(p) ==
    /\ pc[p] = "direct"
    /\ \E l \in launch_worktree(pref) :
          /\ launches' = IF l.spawned
                         THEN Append(launches, resolved.path)
                         ELSE launches
          /\ IF l.ok
             THEN /\ log_editor_launch_attempt(resolved.name, resolved.path,
                                               l.status)
                  /\ Ret(p, TRUE, l.status)
             ELSE /\ log_editor_launch_attempt(resolved.name, resolved.path,
                                               "ConfigurationError")
                  /\ Ret(p, FALSE, "launch failed")
    /\ UNCHANGED <<tmuxVars, pref, resolved, editor_command, pane_id, log,
                   opens>>
    /\ UNCHANGED resolverVars
    /\ UNCHANGED <<self_name, self_path, tmux_env>>
    /\ UNCHANGED hookVars
    /\ UNCHANGED providerVars

\* execute_direct, lines 35-76
ExecuteDirect(p) ==
    /\ pc[p] = "direct"
    /\ \E l \in launch_worktree(pref) :
          /\ launches' = IF l.spawned
                         THEN Append(launches, resolved.path)
                         ELSE launches
          /\ IF l.ok
             THEN /\ log_editor_launch_attempt(resolved.name, resolved.path,
                                               l.status)
                  /\ Ret(p, l.status \in {"Success", "PreferenceMissing"},
                         l.status)
             ELSE /\ log_editor_launch_attempt(resolved.name, resolved.path,
                                               "ConfigurationError")
                  /\ Ret(p, FALSE, "launch failed")
    /\ UNCHANGED <<tmuxVars, pref, resolved, editor_command, pane_id, log,
                   opens>>
    /\ UNCHANGED resolverVars
    /\ UNCHANGED <<self_name, self_path, tmux_env>>
    /\ UNCHANGED hookVars
    /\ UNCHANGED providerVars

\* the command lines of the whole-command specification
OpenNames == {<<>>, << <<"f">> >>, << <<"z">> >>}

\* /p/w/f, the same through the link, a path nothing is at, a directory
\* outside the worktrees root
OpenPaths ==
    {<<>>,
     << WorktreesDir \o << <<"f">> >> >>,
     << LinkedWorktreesDir \o << <<"f">> >> >>,
     << WorktreesDir \o << <<"z">> >> >>,
     << << <<"o">> >> >>}

OpenEnumerations ==
    { << << <<"f">> >> >>,
      << << <<"f">> >>, << <<"g">> >> >>,
      << << <<"a">>, <<"f">> >>, << <<"b">>, <<"f">> >> >> }

\* the tmux sessions of the whole-command specification: the worktree's
\* window absent, present with an editor, present without one
OpenSessions ==
    LET other == MkWindow(<<"o">>, <<sh>>, 0)
        target == WindowName(RepoRoot, <<"f">>)
    IN  { <<other>>,
          <<other, MkWindow(target, <<sh, vim>>, 2)>>,
          <<other, MkWindow(target, <<sh>>, 2)>> }

\* one invocation of the command, from its command line
InitOpen ==
    /\ self_name \in OpenNames
    /\ self_path \in OpenPaths
    /\ ident = IF self_name = <<>> THEN <<>> ELSE self_name[1]
    /\ worktrees_dir \in {WorktreesDir, LinkedWorktreesDir}
    /\ entries \in OpenEnumerations
    /\ disk \in SUBSET ({CanonicalDir(entries[i]) : i \in 1..Len(entries)}
                         \cup {<< <<"o">> >>})
    /\ outcome = NoOutcome
    /\ entries2 = entries
    /\ outcome2 = NoOutcome
    /\ by_path = NoOutcome
    /\ pref \in Prefs
    /\ resolved = [name |-> <<>>, path |-> <<>>]
    /\ tmux_env \in BOOLEAN
    /\ windows \in IF tmux_env THEN OpenSessions
                   ELSE {<<MkWindow(<<"o">>, <<sh>>, 0)>>}
    /\ cur \in 1..Len(windows)
    /\ nextPane = 4
    /\ telemetry = <<>>
    /\ launches = <<>>
    /\ HookIdle
    /\ ProviderIdle
    /\ pc = [p \in Procs |-> IF p = 1 THEN "execute" ELSE "off"]
    /\ opens = [p \in Procs |-> IF p = 1 THEN 1 ELSE 0]
    /\ editor_command = [p \in Procs |-> <<>>]
    /\ pane_id = [p \in Procs |-> <<>>]
    /\ log = [p \in Procs |-> <<>>]
    /\ result = [p \in Procs |-> "none"]
    /\ error = [p \in Procs |-> ""]
    /\ okOpens = [p \in Procs |-> 0]

NextOpen ==
    \E p \in Procs :
        \/ ResolveTarget(p)
        \/ ExecuteDirect(p)
        \/ ResolveEditor(p)
        \/ DisplayMessage(p)
        \/ FindEditorPane(p)
        \/ SelectPane(p)
        \/ ListWindows(p)
        \/ SelectWindow(p)
        \/ FindEditorPaneInWindow(p)
        \/ SelectPaneInWindow(p)
        \/ CreateEditorPane(p)
        \/ NewWindow(p)

SpecOpen == InitOpen /\ [][NextOpen]_vars

\* permission modes of a hook file: 0o644, 0o666, 0o000, 0o755, 0o100,
\* 0o010, 0o001
HookModes == {420, 438, 0, 493, 64, 8, 1}

\* what can be at hook_path: nothing, a file of any of the modes, a directory
HookFiles ==
    {[kind |-> "absent", mode |-> 0], [kind |-> "dir", mode |-> 493]}
    \cup {[kind |-> "file", mode |-> m] : m \in HookModes}

\* the contexts run_hook is called with
HookContexts ==
    [worktree_name : {"test", "my-worktree"},
     worktree_path : {"/w/a", "/w/b"},
     branch : {"feature/test"},
     base_branch : {<<>>, <<"main">>, <<"">>},
     base_path : {"/p", "/w/a"}]

\* the environment of the caller: none of the variables set, or a base
\* branch left over from an enclosing hook
ParentEnvs ==
    {[v \in HookEnvNames |-> <<>>],
     [v \in HookEnvNames |->
         IF v = "RSWORKTREE_BASE_BRANCH" THEN <<"stale">> ELSE <<>>]}

\* the hook runner alone: run_hook is called once
InitHook ==
    /\ hook_file \in HookFiles
    /\ context \in HookContexts
    /\ parent_env \in ParentEnvs
    /\ hook_pc = "ready"
    /\ spawned = <<>>
    /\ stderr = <<>>
    /\ hook_result = "none"
    /\ worktrees_dir = WorktreesDir
    /\ entries = << << <<"f">> >> >>
    /\ disk = {}
    /\ ident = <<"f">>
    /\ outcome = NoOutcome
    /\ entries2 = entries
    /\ outcome2 = NoOutcome
    /\ by_path = NoOutcome
    /\ pref = [tag |-> "Missing", command |-> <<>>, args |-> <<>>]
    /\ resolved = [name |-> <<>>, path |-> <<>>]
    /\ windows = <<MkWindow(<<"o">>, <<sh>>, 0)>>
    /\ cur = 1
    /\ nextPane = 1
    /\ pc = [p \in Procs |-> "off"]
    /\ editor_command = [p \in Procs |-> <<>>]
    /\ pane_id = [p \in Procs |-> <<>>]
    /\ log = [p \in Procs |-> <<>>]
    /\ result = [p \in Procs |-> "none"]
    /\ error = [p \in Procs |-> ""]
    /\ opens = [p \in Procs |-> 0]
    /\ okOpens = [p \in Procs |-> 0]
    /\ self_name = <<>>
    /\ self_path = <<>>
    /\ tmux_env = FALSE
    /\ telemetry = <<>>
    /\ launches = <<>>
    /\ ProviderIdle

NextHook == RunHook

SpecHook == InitHook /\ [][NextHook]_vars

\* the open command, the resolver and tmux at rest
OpenIdle ==
    /\ worktrees_dir = WorktreesDir
    /\ entries = << << <<"f">> >> >>
    /\ disk = {}
    /\ ident = <<"f">>
    /\ outcome = NoOutcome
    /\ entries2 = entries
    /\ outcome2 = NoOutcome
    /\ by_path = NoOutcome
    /\ pref = [tag |-> "Missing", command |-> <<>>, args |-> <<>>]
    /\ resolved = [name |-> <<>>, path |-> <<>>]
    /\ windows = <<MkWindow(<<"o">>, <<sh>>, 0)>>
    /\ cur = 1
    /\ nextPane = 1
    /\ pc = [p \in Procs |-> "off"]
    /\ editor_command = [p \in Procs |-> <<>>]
    /\ pane_id = [p \in Procs |-> <<>>]
    /\ log = [p \in Procs |-> <<>>]
    /\ result = [p \in Procs |-> "none"]
    /\ error = [p \in Procs |-> ""]
    /\ opens = [p \in Procs |-> 0]
    /\ okOpens = [p \in Procs |-> 0]
    /\ self_name = <<>>
    /\ self_path = <<>>
    /\ tmux_env = FALSE
    /\ telemetry = <<>>
    /\ launches = <<>>

\* the sequences over S of length up to n
SeqsUpTo(S, n) == UNION {[1..k -> S] : k \in 0..n}

\* the calls of build_create_args: either provider, a branch (one named
\* like a flag), any options, reviewers (repeats allowed), extra arguments
\* (flags of the command among them)
ProviderCalls ==
    [self : {"GitHub", "GitLab"},
     branch : {"feature/x", "--draft"},
     draft : BOOLEAN, fill : BOOLEAN, web : BOOLEAN,
     reviewers : SeqsUpTo({"alice", "bob"}, MaxReviewers),
     extra_args : SeqsUpTo({"--label", "--reviewer", "x"}, MaxExtraArgs)]

\* the provider alone: build_create_args is called once
InitProvider ==
    /\ provider_call \in ProviderCalls
    /\ create_args = <<>>
    /\ OpenIdle
    /\ HookIdle

NextProvider == BuildCreateArgs

SpecProvider == InitProvider /\ [][NextProvider]_vars

\* two invocations of the command for the same worktree, in one session,
\* each already past resolve_target; their tmux commands interleave in any
\* order (the tmux server runs one command at a time)
InitRace ==
    /\ pref \in Prefs
    /\ worktrees_dir = WorktreesDir
    /\ entries = << << <<"f">> >> >>
    /\ disk = {CanonicalDir(<< <<"f">> >>)}
    /\ ident = <<"f">>
    /\ outcome = resolve_by_name(ident, worktrees_dir, entries, disk)
    /\ entries2 = entries
    /\ outcome2 = NoOutcome
    /\ by_path = NoOutcome
    /\ resolved = [name |-> outcome.name, path |-> outcome.path]
    /\ windows \in OpenSessions
    /\ cur \in 1..Len(windows)
    /\ nextPane = 4
    /\ pc = [p \in Procs |-> "start"]
    /\ opens = [p \in Procs |-> 1]
    /\ editor_command = [p \in Procs |-> <<>>]
    /\ pane_id = [p \in Procs |-> <<>>]
    /\ log = [p \in Procs |-> <<>>]
    /\ result = [p \in Procs |-> "none"]
    /\ error = [p \in Procs |-> ""]
    /\ okOpens = [p \in Procs |-> 0]
    /\ self_name = <<ident>>
    /\ self_path = <<>>
    /\ tmux_env = TRUE
    /\ telemetry = <<>>
    /\ launches = <<>>
    /\ HookIdle
    /\ ProviderIdle

NextRace ==
    \E p \in Procs :
        \/ ResolveEditor(p)
        \/ DisplayMessage(p)
        \/ FindEditorPane(p)
        \/ SelectPane(p)
        \/ ListWindows(p)
        \/ SelectWindow(p)
        \/ FindEditorPaneInWindow(p)
        \/ SelectPaneInWindow(p)
        \/ CreateEditorPane(p)
        \/ NewWindow(p)

SpecRace == InitRace /\ [][NextRace]_vars

(***************************************************************************)
(* Vocabulary of the properties.                                           *)
(***************************************************************************)
\* tmux command c appears among the commands invocation p has run
Issued(p, c) == \E i \in 1..Len(log[p]) : log[p][i].cmd = c

\* the i-th command of invocation p is query/action c and tmux exited 0
RanOk(p, i, c) ==
    /\ Len(log[p]) >= i
    /\ log[p][i].cmd = c
    /\ log[p][i].status = "ok"

\* the <<pane id, running command>> pairs a pane listing shows, in order
ShownPanes(out) ==
    LET ls == Lines(out)
    IN  [i \in 1..Len(ls) |-> SplitOnce(ls[i], COLON)]

\* positions, in a pane listing, of the editor-occupied panes
EditorPositions(out, ed) ==
    {i \in 1..Len(ShownPanes(out)) :
        /\ ShownPanes(out)[i] # <<>>
        /\ EditorOccupied(ShownPanes(out)[i][2], ed)}

\* the names a window listing shows
ShownWindows(out) == {Lines(out)[i] : i \in 1..Len(Lines(out))}

\* least element of a non-empty set of numbers
Least(S) == CHOOSE i \in S : \A j \in S : i <= j

(***************************************************************************)
(* C1. When the current window is the worktree's window (display-message   *)
(* prints WindowName) and the listing of its panes shows an editor-occupied*)
(* pane, the command runs select-pane on an editor-occupied pane of that   *)
(* listing, and runs no split-window, new-window or select-window.         *)
(***************************************************************************)
C1_InWindowWithEditor(p) ==
    /\ RanOk(p, 1, "display-message")
    /\ log[p][1].out = window_name \o <<NL>>
    /\ RanOk(p, 2, "list-panes")
    /\ log[p][2].target = <<>>
    /\ EditorPositions(log[p][2].out, editor_command[p]) # {}

C2_WindowElsewhere(p) ==
    /\ RanOk(p, 1, "display-message")
    /\ log[p][1].out # window_name \o <<NL>>
    /\ RanOk(p, 2, "list-windows")
    /\ window_name \in ShownWindows(log[p][2].out)

C2_NoEditorInIt(p) ==
    /\ RanOk(p, 3, "select-window")
    /\ RanOk(p, 4, "list-panes")
    /\ log[p][4].target = window_name
    /\ EditorPositions(log[p][4].out, editor_command[p]) = {}

C3_WindowAbsent(p) ==
    /\ Len(log[p]) >= 2
    /\ log[p][1].cmd = "display-message"
    /\ RanOk(p, 2, "list-windows")
    /\ <<"p", SLASH>> \o resolved.name \notin ShownWindows(log[p][2].out)

C3_NewWindowWhenAbsent ==
    \A p \in Procs :
        C3_WindowAbsent(p) =>
            /\ ~Issued(p, "select-window")
            /\ ~Issued(p, "select-pane")
            /\ ~Issued(p, "split-window")
            /\ Len(log[p]) <= 3
            /\ Len(log[p]) = 2 => pc[p] = "new_window"
            /\ Len(log[p]) = 3 =>
                   /\ pc[p] = "done"
                   /\ log[p][3].cmd = "new-window"
                   /\ log[p][3].name = <<"p", SLASH>> \o resolved.name
                   /\ log[p][3].cwd = PathDisplay(resolved.path)
                   /\ log[p][3].command =
                          <<pref.command, PathDisplay(resolved.path)>>

C3_Witness ==
    /\ pc[1] = "done"
    /\ result[1] = "ok"
    /\ C3_WindowAbsent(1)
    /\ log[1][3].cmd = "new-window"
    /\ windows[cur].name = <<"p", SLASH>> \o resolved.name

(***************************************************************************)
(* C7. The pane select-pane is run on is the first editor-occupied pane of *)
(* the pane listing that precedes it, in the order of the listing.         *)
(***************************************************************************)
C7_FirstInListingOrder ==
    \A p \in Procs : \A i \in 1..Len(log[p]) :
        log[p][i].cmd = "select-pane" =>
            /\ i >= 2
            /\ log[p][i - 1].cmd = "list-panes"
            /\ EditorPositions(log[p][i - 1].out, editor_command[p]) # {}
            /\ log[p][i].target =
                   ShownPanes(log[p][i - 1].out)[
                       Least(EditorPositions(log[p][i - 1].out,
                                             editor_command[p]))][1]

C7_Witness ==
    \E i \in 2..Len(log[1]) :
        /\ log[1][i].cmd = "select-pane"
        /\ log[1][i].status = "ok"
        /\ Cardinality(EditorPositions(log[1][i - 1].out,
                                       editor_command[1])) >= 2
        /\ log[1][i].target = ShownPanes(log[1][i - 1].out)[1][1]

(***************************************************************************)
(* C4. Repeated opens reuse what is there: once an open has succeeded, no  *)
(* step of a further open adds a window or a pane, at most one window is   *)
(* named WindowName, and every further successful open ends in select-pane.*)
(***************************************************************************)
RECURSIVE CountPanes(_)
CountPanes(ws) ==
    IF ws = <<>> THEN 0 ELSE Len(ws[1].panes) + CountPanes(Tail(ws))

NamedWindows(ws, name) == {i \in 1..Len(ws) : ws[i].name = name}

C4_NothingAdded ==
    \A p \in Procs :
        okOpens[p] >= 1 =>
            /\ Len(windows') = Len(windows)
            /\ CountPanes(windows') = CountPanes(windows)

C4_ReuseAfterOpen ==
    \A p \in Procs :
        /\ okOpens[p] >= 1 =>
               Cardinality(NamedWindows(windows, window_name)) <= 1
        /\ (pc[p] = "done" /\ result[p] = "ok" /\ okOpens[p] >= 2) =>
               log[p][Len(log[p])].cmd = "select-pane"

C4_RepeatedOpensIdempotent == [][C4_NothingAdded]_vars /\ []C4_ReuseAfterOpen

(***************************************************************************)
(* C5. A topology query (display-message, list-windows, list-panes) that   *)
(* exits non-zero or cannot be spawned ends the command with an error: no  *)
(* tmux command follows it.                                                *)
(***************************************************************************)
C5_QueryFailureIsFatal ==
    \A p \in Procs : \A i \in 1..Len(log[p]) :
        (log[p][i].cmd \in Queries /\ log[p][i].status # "ok") =>
            /\ Len(log[p]) = i
            /\ pc[p] = "done"
            /\ result[p] = "err"

(***************************************************************************)
(* C6. A tmux action (select-window, select-pane, split-window,            *)
(* new-window) that exits non-zero or cannot be spawned ends the command   *)
(* with an error, no tmux command follows it, and the step in which it     *)
(* fails leaves the session as the earlier commands made it.               *)
(***************************************************************************)
C6_FailedActionIsLast ==
    \A p \in Procs : \A i \in 1..Len(log[p]) :
        (log[p][i].cmd \in Actions /\ log[p][i].status # "ok") =>
            /\ Len(log[p]) = i
            /\ pc[p] = "done"
            /\ result[p] = "err"
            /\ error[p] # ""

C6_NoRollback ==
    \A p \in Procs :
        (/\ Len(log'[p]) = Len(log[p]) + 1
         /\ log'[p][Len(log'[p])].cmd \in Actions
         /\ log'[p][Len(log'[p])].status # "ok") =>
            UNCHANGED tmuxVars

C6_ActionFailureAborts == []C6_FailedActionIsLast /\ [][C6_NoRollback]_vars

C6_Witness ==
    /\ pc[1] = "done"
    /\ result[1] = "err"
    /\ RanOk(1, 1, "display-message")
    /\ log[1][1].out # window_name \o <<NL>>
    /\ RanOk(1, 3, "select-window")
    /\ Len(log[1]) = 5
    /\ log[1][5].cmd = "split-window"
    /\ log[1][5].status = "nonzero"
    /\ windows[cur].name = window_name

(***************************************************************************)
(* C8. The pane select-pane is run on runs a command that contains the     *)
(* editor command or is one of the recognised editor names: a pane running *)
(* anything else is never selected as the editor pane.                     *)
(* (C8_SubstringOfEditorName is what the code does instead: a pane counts  *)
(* as editor-occupied exactly when its command contains the editor command *)
(* or contains one of the recognised names as a substring.)                *)
(***************************************************************************)
\* the command of the pane of that id in a listing
ShownCommand(out, id) ==
    LET sp == ShownPanes(out)
    IN  sp[CHOOSE i \in 1..Len(sp) : sp[i] # <<>> /\ sp[i][1] = id][2]

C8_ByName(cmd, ed) ==
    Contains(cmd, ed) \/ \E k \in 1..Len(Editors) : cmd = Editors[k]

C8_BySubstring(cmd, ed) ==
    Contains(cmd, ed) \/ \E k \in 1..Len(Editors) : Contains(cmd, Editors[k])

C8_OnlyEditorNames ==
    \A p \in Procs : \A i \in 2..Len(log[p]) :
        log[p][i].cmd = "select-pane" =>
            C8_ByName(ShownCommand(log[p][i - 1].out, log[p][i].target),
                      editor_command[p])

C8_Occupied(out, ed) ==
    {i \in 1..Len(ShownPanes(out)) :
        /\ ShownPanes(out)[i] # <<>>
        /\ C8_BySubstring(ShownPanes(out)[i][2], ed)}

C8_SubstringOfEditorName ==
    \A p \in Procs : \A i \in 1..Len(log[p]) :
        (log[p][i].cmd = "list-panes" /\ log[p][i].status # "spawnfail") =>
            LET occ == C8_Occupied(log[p][i].out, editor_command[p])
            IN  IF occ = {}
                THEN /\ Len(log[p]) = i => pc[p] = "create_pane"
                     /\ Len(log[p]) > i => log[p][i + 1].cmd = "split-window"
                ELSE /\ Len(log[p]) = i =>
                            /\ pc[p] \in {"select_pane",
                                          "select_pane_in_window"}
                            /\ pane_id[p] \in
                                   {ShownPanes(log[p][i].out)[k][1] : k \in occ}
                     /\ Len(log[p]) > i =>
                            /\ log[p][i + 1].cmd = "select-pane"
                            /\ log[p][i + 1].target \in
                                   {ShownPanes(log[p][i].out)[k][1] : k \in occ}

C8_Witness ==
    /\ pc[1] = "done"
    /\ result[1] = "ok"
    /\ editor_command[1] = vim
    /\ log[1][Len(log[1])].cmd = "select-pane"
    /\ ShownCommand(log[1][Len(log[1]) - 1].out,
                    log[1][Len(log[1])].target) = decode

(***************************************************************************)
(* Vocabulary of the resolver's properties.                                *)
(***************************************************************************)
\* the final path segment of a worktree
LastSegment(rel) == rel[Len(rel)]

\* worktree rel answers to identifier x: its display form is x, or ends
\* with "/" followed by x
Answers(rel, x) ==
    \/ Join(rel, <<SLASH>>) = x
    \/ /\ Len(Join(rel, <<SLASH>>)) > Len(x)
       /\ SubSeq(Join(rel, <<SLASH>>),
                 Len(Join(rel, <<SLASH>>)) - Len(x),
                 Len(Join(rel, <<SLASH>>))) = <<SLASH>> \o x

\* the display forms of the worktrees that answer to x, in enumeration order
RECURSIVE AnsweringDisplays(_, _)
AnsweringDisplays(es, x) ==
    IF es = <<>> THEN <<>>
    ELSE (IF Answers(es[1], x) THEN <<Join(es[1], <<SLASH>>)>> ELSE <<>>)
         \o AnsweringDisplays(Tail(es), x)

\* the identifier is the display form or the final segment of entry i
NamesEntry(i) ==
    \/ ident = Join(entries[i], <<SLASH>>)
    \/ ident = LastSegment(entries[i])

\* no other enumerated worktree answers to the identifier
OnlyAnswer(i) ==
    \A j \in 1..Len(entries) : j # i => ~Answers(entries[j], ident)

\* resolution succeeded with entry i
ResolvedTo(i) ==
    /\ outcome.tag = "Ok"
    /\ outcome.name = Join(entries[i], <<SLASH>>)
    /\ outcome.path = <<<<"p">>, <<"w">>>> \o entries[i]

(***************************************************************************)
(* C9. Original: with pairwise distinct display names, resolving by a      *)
(* worktree's display name or by its final path segment succeeds and       *)
(* returns that worktree's canonical path (its directory existing).        *)
(* Amended: it does so when no other enumerated worktree answers to the    *)
(* identifier (display form equal to it or ending with "/" + identifier);  *)
(* when another one does, the result is the Ambiguous error.               *)
(***************************************************************************)
C9_ResolvesByNameOrSegment ==
    outcome.tag # "none" =>
        \A i \in 1..Len(entries) :
            (NamesEntry(i) /\ CanonicalDir(entries[i]) \in disk) =>
                ResolvedTo(i)

C9_ResolvesWhenOnlyAnswer ==
    outcome.tag # "none" =>
        \A i \in 1..Len(entries) :
            NamesEntry(i) =>
                /\ (OnlyAnswer(i) /\ CanonicalDir(entries[i]) \in disk) =>
                       ResolvedTo(i)
                /\ ~OnlyAnswer(i) => outcome.tag = "Ambiguous"

C9_Witness ==
    /\ Len(entries) = 2
    /\ worktrees_dir = LinkedWorktreesDir
    /\ \E i \in 1..Len(entries) :
           /\ ident = LastSegment(entries[i])
           /\ ident # Join(entries[i], <<SLASH>>)
           /\ ResolvedTo(i)

(***************************************************************************)
(* C10. Original: when two worktrees share a final path segment, resolving *)
(* by that segment gives the Ambiguous error listing the display form of   *)
(* every matching worktree, and resolving by the full display form of      *)
(* either succeeds with exactly that worktree (its directory existing).    *)
(* Amended: the second half holds when no other worktree answers to that   *)
(* display form; when one does ("f" beside "a/f"), it is Ambiguous too.    *)
(***************************************************************************)
SharedSegment(i, j) ==
    i # j /\ LastSegment(entries[i]) = LastSegment(entries[j])

C10_AmbiguousBySegment(i, j) ==
    ident = LastSegment(entries[i]) =>
        /\ outcome.tag = "Ambiguous"
        /\ outcome.name = ident
        /\ outcome.names =
               Join(AnsweringDisplays(entries, ident), <<",", SP>>)
        /\ Len(AnsweringDisplays(entries, ident)) >= 2

C10_SharedSegment ==
    outcome.tag # "none" =>
        \A i, j \in 1..Len(entries) :
            SharedSegment(i, j) =>
                /\ C10_AmbiguousBySegment(i, j)
                /\ (/\ ident = Join(entries[i], <<SLASH>>)
                    /\ CanonicalDir(entries[i]) \in disk) => ResolvedTo(i)

C10_SharedSegmentUnlessSuffix ==
    outcome.tag # "none" =>
        \A i, j \in 1..Len(entries) :
            SharedSegment(i, j) =>
                /\ C10_AmbiguousBySegment(i, j)
                /\ ident = Join(entries[i], <<SLASH>>) =>
                       /\ (/\ OnlyAnswer(i)
                           /\ CanonicalDir(entries[i]) \in disk)
                              => ResolvedTo(i)
                       /\ ~OnlyAnswer(i) => outcome.tag = "Ambiguous"

C10_Witness ==
    /\ outcome.tag = "Ambiguous"
    /\ entries = << << <<"a">>, <<"f">> >>, << <<"b">>, <<"f">> >> >>
    /\ ident = <<"f">>
    /\ outcome.names = <<"a", SLASH, "f", ",", SP, "b", SLASH, "f">>

(***************************************************************************)
(* C11. By-name matching is on path-segment boundaries only: a worktree    *)
(* matches identifier x iff x is its display form, or its display form     *)
(* ends with "/" followed by x, or its final segment is x -- that is, iff  *)
(* x is the "/"-joined form of some trailing run of whole segments of the  *)
(* worktree's path.  An identifier that is only a raw substring or a       *)
(* non-boundary suffix of the display form ("f" against "xf") never        *)
(* matches.                                                                *)
(***************************************************************************)
\* x is a trailing run of whole segments of rel
OnSegmentBoundary(rel, x) ==
    \E k \in 1..Len(rel) : x = Join(SubSeq(rel, k, Len(rel)), <<SLASH>>)

\* the enumerated worktrees that x names on a segment boundary
BoundaryMatches(x) ==
    {i \in 1..Len(entries) : OnSegmentBoundary(entries[i], x)}

\* x occurs in the display form of rel without being a boundary match
RawSubstringOnly(rel, x) ==
    /\ Contains(Join(rel, <<SLASH>>), x)
    /\ ~OnSegmentBoundary(rel, x)

C11_SegmentBoundaryMatching ==
    outcome.tag # "none" =>
        /\ outcome.tag = "NotFound" <=> BoundaryMatches(ident) = {}
        /\ outcome.tag = "Ambiguous" <=>
               Cardinality(BoundaryMatches(ident)) > 1
        /\ \A i \in 1..Len(entries) :
               BoundaryMatches(ident) = {i} =>
                   outcome.name = Join(entries[i], <<SLASH>>)
        /\ (\A i \in 1..Len(entries) : RawSubstringOnly(entries[i], ident))
               => outcome.tag = "NotFound"

C11_Witness ==
    /\ outcome.tag = "Ok"
    /\ Len(entries) = 2
    /\ ident = <<"f">>
    /\ RawSubstringOnly(entries[1], ident)
    /\ entries[1][1] = <<"x", "f">>
    /\ OnSegmentBoundary(entries[2], ident)
    /\ outcome.name = Join(entries[2], <<SLASH>>)

(***************************************************************************)
(* C13. When exactly one worktree matches the name but its absolute path   *)
(* no longer exists on disk, resolution fails with MissingOnDisk naming    *)
(* the expected path (the worktrees root joined with the relative path);   *)
(* a ResolvedWorktree is only ever returned with a path that exists and is *)
(* canonical (no symbolic link in it) at resolution time.                  *)
(***************************************************************************)
\* no component of the path is a symbolic link
IsCanonical(path) == \A k \in 1..Len(path) : path[k] # <<"l">>

C13_MissingOnDisk ==
    outcome.tag # "none" =>
        /\ \A i \in 1..Len(entries) :
               (/\ BoundaryMatches(ident) = {i}
                /\ <<<<"p">>, <<"w">>>> \o entries[i] \notin disk) =>
                   /\ outcome.tag = "MissingOnDisk"
                   /\ outcome.name = Join(entries[i], <<SLASH>>)
                   /\ outcome.path = worktrees_dir \o entries[i]
        /\ outcome.tag = "MissingOnDisk" =>
               \E i \in 1..Len(entries) :
                   /\ BoundaryMatches(ident) = {i}
                   /\ <<<<"p">>, <<"w">>>> \o entries[i] \notin disk
        /\ outcome.tag = "Ok" =>
               /\ outcome.path \in disk
               /\ IsCanonical(outcome.path)

C13_Witness ==
    /\ outcome.tag = "MissingOnDisk"
    /\ Len(entries) = 2
    /\ worktrees_dir = <<<<"l">>, <<"w">>>>
    /\ disk # {}
    /\ outcome.path = <<<<"l">>, <<"w">>, <<"a">>, <<"f">>>>

(***************************************************************************)
(* C12. Resolving a name that matches no enumerated worktree returns a     *)
(* NotFound error that contains the exact input identifier, and the open   *)
(* command then returns that error having run no tmux command, launched no *)
(* editor and made no telemetry call.                                      *)
(***************************************************************************)
\* the command was given a name only, and no enumerated worktree matches it
C12_NoMatch ==
    /\ self_path = <<>>
    /\ self_name # <<>>
    /\ BoundaryMatches(self_name[1]) = {}

C12_NotFoundStopsTheCommand ==
    /\ (C12_NoMatch /\ outcome.tag # "none") => outcome.tag = "NotFound"
    /\ outcome.tag = "NotFound" =>
           /\ C12_NoMatch
           /\ outcome.name = self_name[1]
           /\ pc[1] = "done"
           /\ result[1] = "err"
           /\ log[1] = <<>>
           /\ launches = <<>>
           /\ telemetry = <<>>

C12_Witness ==
    /\ outcome.tag = "NotFound"
    /\ outcome.name = <<"z">>
    /\ tmux_env
    /\ pref.tag = "Found"
    /\ Len(entries) = 2
    /\ result[1] = "err"

(***************************************************************************)
(* C14. Resolving by path: a path that does not exist yields the           *)
(* path-not-found error; an existing path yields a ResolvedWorktree whose  *)
(* path is the canonicalized form of the input; when both a path and a     *)
(* name are supplied the path form is used and the name is ignored.        *)
(***************************************************************************)
\* the path with its symbolic link replaced by what it points to
C14_CanonicalForm(path) ==
    [k \in 1..Len(path) |-> IF path[k] = <<"l">> THEN <<"p">> ELSE path[k]]

C14_ByPath ==
    (outcome.tag # "none" /\ self_path # <<>>) =>
        /\ C14_CanonicalForm(self_path[1]) \notin disk =>
               /\ outcome.tag = "PathNotFound"
               /\ outcome.path = self_path[1]
               /\ result[1] = "err"
        /\ C14_CanonicalForm(self_path[1]) \in disk =>
               /\ outcome.tag = "Ok"
               /\ outcome.path = C14_CanonicalForm(self_path[1])
               /\ resolved.path = outcome.path
               /\ resolved.path \in disk

C14_Witness ==
    /\ self_path = << <<<<"l">>, <<"w">>, <<"f">>>> >>
    /\ self_name = << <<"z">> >>
    /\ outcome.tag = "Ok"
    /\ resolved.path = <<<<"p">>, <<"w">>, <<"f">>>>
    /\ pc[1] = "done"
    /\ result[1] = "ok"

(***************************************************************************)
(* C15. run_hook spawns no process and returns success when the hook file  *)
(* is absent, and spawns no process and returns success after a warning    *)
(* when the file is present but has no execute permission bit; a hook      *)
(* process is spawned only when the file exists and is executable.         *)
(***************************************************************************)
\* some execute bit of the mode is set (0o100, 0o010 or 0o001)
C15_MarkedExecutable ==
    hook_file.mode \in {493, 64, 8, 1}

C15_NoSpawnUnlessExecutable ==
    hook_pc = "done" =>
        /\ hook_file.kind = "absent" =>
               /\ hook_result = "Ok"
               /\ spawned = <<>>
               /\ stderr = <<>>
        /\ (hook_file.kind # "absent" /\ ~C15_MarkedExecutable) =>
               /\ hook_result = "Ok"
               /\ spawned = <<>>
               /\ Len(stderr) = 1
        /\ spawned # <<>> =>
               (hook_file.kind # "absent" /\ C15_MarkedExecutable)

C15_Witness ==
    /\ hook_pc = "done"
    /\ hook_file = [kind |-> "file", mode |-> 420]
    /\ hook_result = "Ok"
    /\ spawned = <<>>
    /\ stderr # <<>>

(***************************************************************************)
(* C16. run_hook returns an error only when the hook process cannot be     *)
(* spawned; a hook that runs and exits with any non-zero code (e.g. 3)     *)
(* yields a warning containing that exit code, and run_hook still returns  *)
(* success to the caller.                                                  *)
(***************************************************************************)
\* the exit codes of the model as they are written in decimal
C16_CodeText(c) ==
    CASE c = 0 -> <<"0">>
      [] c = 1 -> <<"1">>
      [] c = 3 -> <<"3">>
      [] c = 255 -> <<"2", "5", "5">>

C16_ErrorOnlyOnSpawnFailure ==
    hook_pc = "done" =>
        /\ hook_result = "Err" =>
               /\ spawned = <<>>
               /\ stderr = <<>>
               /\ hook_file.kind # "absent"
        /\ \A i \in 1..Len(spawned) :
               (spawned[i].ended.tag = "exit"
                /\ spawned[i].ended.code # 0) =>
                   /\ hook_result = "Ok"
                   /\ Len(stderr) = 1
                   /\ Contains(stderr[1],
                               <<" exited with code ">>
                               \o C16_CodeText(spawned[i].ended.code))
        /\ \A i \in 1..Len(spawned) :
               (spawned[i].ended.tag = "exit"
                /\ spawned[i].ended.code = 0) =>
                   (hook_result = "Ok" /\ stderr = <<>>)

C16_Witness ==
    /\ hook_pc = "done"
    /\ hook_result = "Ok"
    /\ Len(spawned) = 1
    /\ spawned[1].ended = [tag |-> "exit", code |-> 3]
    /\ stderr = << <<"Warning: hook ", "post-create",
                     " exited with code ", "3">> >>

(***************************************************************************)
(* C17. Whenever a hook is spawned, its working directory is the context's *)
(* worktree path and its environment holds RSWORKTREE_NAME,                *)
(* RSWORKTREE_PATH, RSWORKTREE_BRANCH, RSWORKTREE_BASE_BRANCH and          *)
(* RSWORKTREE_BASE_PATH equal to the corresponding HookContext fields,     *)
(* RSWORKTREE_BASE_BRANCH being the empty string when base_branch is       *)
(* absent (whatever the caller's own environment holds).                   *)
(***************************************************************************)
C17_HookEnvironment ==
    \A i \in 1..Len(spawned) :
        /\ spawned[i].program = <<"r", "hooks", "post-create">>
        /\ spawned[i].cwd = context.worktree_path
        /\ spawned[i].env["RSWORKTREE_NAME"] = <<context.worktree_name>>
        /\ spawned[i].env["RSWORKTREE_PATH"] = <<context.worktree_path>>
        /\ spawned[i].env["RSWORKTREE_BRANCH"] = <<context.branch>>
        /\ spawned[i].env["RSWORKTREE_BASE_PATH"] = <<context.base_path>>
        /\ context.base_branch = <<>> =>
               spawned[i].env["RSWORKTREE_BASE_BRANCH"] = <<"">>
        /\ context.base_branch # <<>> =>
               spawned[i].env["RSWORKTREE_BASE_BRANCH"] = context.base_branch

C17_Witness ==
    /\ Len(spawned) = 1
    /\ context.base_branch = <<>>
    /\ context.worktree_name = "my-worktree"
    /\ parent_env["RSWORKTREE_BASE_BRANCH"] = <<"stale">>
    /\ spawned[1].env["RSWORKTREE_BASE_BRANCH"] = <<"">>
    /\ spawned[1].env["RSWORKTREE_NAME"] = <<"my-worktree">>

(***************************************************************************)
(* C18. Every invocation of the direct-launch path (execute_direct) calls  *)
(* log_editor_launch_attempt exactly once, with the resolved worktree name *)
(* and path, whichever branch is taken: launch success, PreferenceMissing, *)
(* a non-success outcome status, or launch_worktree returning an error,    *)
(* which is logged as ConfigurationError before the error propagates.      *)
(***************************************************************************)
\* execute_direct has been entered and has returned
C18_DirectReturned ==
    /\ ~tmux_env
    /\ outcome.tag = "Ok"
    /\ pc[1] = "done"

C18_OneTelemetryRecord ==
    /\ C18_DirectReturned =>
           /\ Len(telemetry) = 1
           /\ telemetry[1].name = resolved.name
           /\ telemetry[1].path = resolved.path
           /\ error[1] = "launch failed" =>
                  telemetry[1].status = "ConfigurationError"
           /\ error[1] # "launch failed" => telemetry[1].status = error[1]
    /\ ~C18_DirectReturned => telemetry = <<>>

C18_Witness ==
    /\ C18_DirectReturned
    /\ error[1] = "launch failed"
    /\ result[1] = "err"
    /\ pref.tag = "Found"
    /\ telemetry = <<[name |-> <<"f">>,
                      path |-> <<<<"p">>, <<"w">>, <<"f">>>>,
                      status |-> "ConfigurationError"]>>

(***************************************************************************)
(* C19. On the direct-launch path with no editor configured, the outcome   *)
(* status is PreferenceMissing and the open command returns success (exit  *)
(* code 0); any outcome status other than Success or PreferenceMissing     *)
(* makes the command return an error.                                      *)
(***************************************************************************)
C19_DirectExitStatus ==
    C18_DirectReturned =>
        /\ pref.tag = "Missing" =>
               /\ telemetry[1].status = "PreferenceMissing"
               /\ result[1] = "ok"
               /\ launches = <<>>
        /\ telemetry[1].status \notin {"Success", "PreferenceMissing"} =>
               result[1] = "err"
        /\ telemetry[1].status \in {"Success", "PreferenceMissing"} =>
               result[1] = "ok"

C19_Witness ==
    /\ C18_DirectReturned
    /\ pref.tag = "Missing"
    /\ result[1] = "ok"
    /\ error[1] = "PreferenceMissing"
    /\ Len(telemetry) = 1

(***************************************************************************)
(* C20. A missing editor preference is reported as informational success   *)
(* and never as an error on every path of the open command, including the  *)
(* multiplexer (tmux) branch: once the target is resolved and no editor is *)
(* configured, the command returns success.                                *)
(***************************************************************************)
C20_MissingPreferenceIsSuccess ==
    (/\ pc[1] = "done"
     /\ outcome.tag = "Ok"
     /\ pref.tag = "Missing") => result[1] = "ok"

(***************************************************************************)
(* C21. For every provider and every input, build_create_args returns      *)
(* exactly: "pr"|"mr", "create", "--head"|"--source-branch", branch; then  *)
(* "--draft" iff draft, "--fill" iff fill, "--web" iff web, in that order; *)
(* then "--reviewer", r for each reviewer in input order; then extra_args  *)
(* unchanged at the end.  With all options off and no reviewers or extras  *)
(* the result is the four-element prefix.                                  *)
(***************************************************************************)
\* 1 when the option is on
C21_N(b) == IF b THEN 1 ELSE 0

\* the number of option flags of the call
C21_Flags ==
    C21_N(provider_call.draft) + C21_N(provider_call.fill)
    + C21_N(provider_call.web)

C21_ArgsLayout ==
    create_args # <<>> =>
        LET c == provider_call
            a == create_args
            base == 4 + C21_Flags
            r == Len(c.reviewers)
        IN  /\ Len(a) = base + 2 * r + Len(c.extra_args)
            /\ a[1] = (IF c.self = "GitHub" THEN "pr" ELSE "mr")
            /\ a[2] = "create"
            /\ a[3] = (IF c.self = "GitHub" THEN "--head"
                       ELSE "--source-branch")
            /\ a[4] = c.branch
            /\ c.draft => a[5] = "--draft"
            /\ c.fill => a[5 + C21_N(c.draft)] = "--fill"
            /\ c.web => a[5 + C21_N(c.draft) + C21_N(c.fill)] = "--web"
            /\ \A k \in 1..r :
                   /\ a[base + 2 * k - 1] = "--reviewer"
                   /\ a[base + 2 * k] = c.reviewers[k]
            /\ \A k \in 1..Len(c.extra_args) :
                   a[base + 2 * r + k] = c.extra_args[k]

C21_Witness ==
    /\ provider_call.self = "GitLab"
    /\ create_args = <<"mr", "create", "--source-branch", "feature/x",
                       "--draft", "--web", "--reviewer", "bob",
                       "--reviewer", "alice", "--label", "x">>

(***************************************************************************)
(* C22. In tmux mode the editor preference is resolved before any tmux     *)
(* command: when the preference is missing, the open command terminates    *)
(* without issuing any tmux query or action; a tmux command is only ever   *)
(* issued by an invocation that holds the configured editor command.       *)
(***************************************************************************)
C22_PreferenceBeforeTmux ==
    \A p \in Procs :
        /\ pref.tag = "Missing" =>
               /\ log[p] = <<>>
               /\ pc[p] \in {"start", "done", "off"}
        /\ log[p] # <<>> =>
               /\ pref.tag = "Found"
               /\ editor_command[p] = pref.command

C22_Witness ==
    /\ pref.tag = "Missing"
    /\ pc[1] = "done"
    /\ opens[1] = 2
    /\ log[1] = <<>>
    /\ Len(windows) = 2

(***************************************************************************)
(* C23. No placement decision uses a cached snapshot: every tmux action    *)
(* (select-window, select-pane, split-window, new-window) is directly      *)
(* preceded, with no other tmux action in between, by a fresh tmux query   *)
(* issued in the same invocation -- the window listing before              *)
(* select-window and new-window, a pane listing before select-pane and     *)
(* split-window; in particular the pane listing used after select-window   *)
(* is queried, for that window, after select-window has completed.         *)
(***************************************************************************)
\* the query whose answer decides the action
C23_DecidingQuery(action) ==
    IF action \in {"select-window", "new-window"} THEN "list-windows"
    ELSE "list-panes"

C23_FreshQueryBeforeAction ==
    \A p \in Procs : \A i \in 1..Len(log[p]) :
        log[p][i].cmd \in
            {"select-window", "select-pane", "split-window", "new-window"}
        => /\ i > 1
           /\ log[p][i - 1].cmd = C23_DecidingQuery(log[p][i].cmd)
           /\ \A k \in 1..(i - 1) :
                  log[p][k].cmd = "select-window" =>
                      /\ k < i - 1
                      /\ log[p][k].status = "ok"
                      /\ log[p][i - 1].target = log[p][k].target

C23_Witness ==
    /\ Len(log[1]) = 5
    /\ log[1][3].cmd = "select-window"
    /\ log[1][4].cmd = "list-panes"
    /\ log[1][4].target = <<"p", SLASH, "f">>
    /\ log[1][5].cmd = "split-window"
    /\ result[1] = "ok"

(***************************************************************************)
(* C24. Every successful tmux-mode open performs exactly one terminal      *)
(* placement action out of {select-pane, split-window, new-window}, as its *)
(* last tmux command, and at most one select-window, which when present    *)
(* happens before the terminal action and never together with new-window.  *)
(***************************************************************************)
\* the positions of the invocation's commands that are among cmds
C24_Positions(p, cmds) ==
    {i \in 1..Len(log[p]) : log[p][i].cmd \in cmds}

C24_OneTerminalAction ==
    \A p \in Procs :
        (pc[p] = "done" /\ result[p] = "ok") =>
            LET terminal ==
                    C24_Positions(p, {"select-pane", "split-window",
                                      "new-window"})
                switches == C24_Positions(p, {"select-window"})
            IN  /\ terminal = {Len(log[p])}
                /\ log[p][Len(log[p])].status = "ok"
                /\ Cardinality(switches) <= 1
                /\ \A i \in switches :
                       /\ i < Len(log[p])
                       /\ log[p][Len(log[p])].cmd # "new-window"

C24_Witness ==
    /\ pc[1] = "done"
    /\ result[1] = "ok"
    /\ C24_Positions(1, {"select-window"}) = {3}
    /\ C24_Positions(1, {"select-pane"}) = {5}
    /\ opens[1] = 2

(***************************************************************************)
(* C25. The editor invocation launched is the same whichever action starts *)
(* the editor: new-window and split-window both run the configured editor  *)
(* command followed by all configured editor args and then the worktree    *)
(* path.                                                                   *)
(***************************************************************************)
\* the command line a tmux action was given, its words separated by spaces
C25_Invocation(entry) == Join(entry.command, <<SP>>)

\* editor command, every editor argument, the worktree path
C25_Configured ==
    Join(<<pref.command>> \o pref.args
         \o << <<SLASH>> \o Join(resolved.path, <<SLASH>>) >>, <<SP>>)

C25_SameEditorInvocation ==
    \A p \in Procs : \A i \in 1..Len(log[p]) :
        log[p][i].cmd \in {"new-window", "split-window"} =>
            C25_Invocation(log[p][i]) = C25_Configured

(***************************************************************************)
(* C26. When two open invocations for the same worktree run concurrently   *)
(* in one tmux session, with their tmux queries and actions interleaved in *)
(* any order, the session ends with at most one window named WindowName    *)
(* and at most one editor pane created for that worktree.  (Stated for the *)
(* runs in which every tmux command of both invocations exits 0.)          *)
(***************************************************************************)
\* both invocations have returned and none of their tmux commands failed
C26_BothReturnedCleanly ==
    \A p \in Procs :
        /\ pc[p] = "done"
        /\ \A i \in 1..Len(log[p]) : log[p][i].status = "ok"

\* the panes the two invocations created to run the editor
C26_Created ==
    {<<p, i>> \in Procs \X (1..8) :
        /\ i <= Len(log[p])
        /\ log[p][i].cmd \in {"split-window", "new-window"}}

C26_NoDuplicateUnderRace ==
    C26_BothReturnedCleanly =>
        /\ Cardinality({i \in 1..Len(windows) :
                           windows[i].name = window_name}) <= 1
        /\ Cardinality(C26_Created) <= 1

(***************************************************************************)
(* C27.  The outcome of resolve_by_name depends only on the set of         *)
(* enumerated worktrees and on the identifier: resolving once over         *)
(* `entries` and once over `entries2`, the same worktrees in another       *)
(* order, gives the same kind of outcome, the same name and path when a    *)
(* worktree is resolved or named by the error, and the same set of names   *)
(* in the message of an ambiguity.                                         *)
(***************************************************************************)
\* the names an ambiguity message lists, separated by ", ", as a set
RECURSIVE C27_NamesListed(_)
C27_NamesListed(s) ==
    LET commas == {i \in 1..Len(s) : s[i] = ","}
    IN  IF commas = {} THEN {s}
        ELSE LET c == CHOOSE i \in commas : \A j \in commas : i <= j
             IN  {SubSeq(s, 1, c - 1)}
                     \cup C27_NamesListed(SubSeq(s, c + 2, Len(s)))

C27_OrderIndependent ==
    (outcome # NoOutcome /\ outcome2 # NoOutcome) =>
        /\ {entries2[i] : i \in 1..Len(entries2)}
               = {entries[i] : i \in 1..Len(entries)}
        /\ outcome2.tag = outcome.tag
        /\ outcome2.name = outcome.name
        /\ outcome2.path = outcome.path
        /\ C27_NamesListed(outcome2.names) = C27_NamesListed(outcome.names)

\* two worktrees match, enumerated in the two orders: both resolutions are
\* ambiguous and their messages list the names in different orders
C27_Witness ==
    /\ entries2 # entries
    /\ outcome.tag = "Ambiguous"
    /\ outcome2.tag = "Ambiguous"
    /\ outcome2.names # outcome.names
    /\ Cardinality(C27_NamesListed(outcome.names)) = 2

(***************************************************************************)
(* C28.  Resolving the same existing worktree by its full display name and *)
(* by its filesystem path yields the same name and the same path, hence    *)
(* the same window name, for every worktree under the worktrees root,      *)
(* nested ones included, and also when the worktrees root is reached       *)
(* through a symbolic link.                                                *)
(***************************************************************************)
\* the identifier is the full display name of the i-th enumerated worktree
\* and the path given is that worktree's directory
C28_SameWorktree(i) ==
    /\ ident = format_worktree(entries[i])
    /\ self_path # <<>>
    /\ self_path[1] \in {worktrees_dir \o entries[i], CanonicalDir(entries[i])}

C28_SameNameAndPath ==
    \A i \in 1..Len(entries) :
        (/\ C28_SameWorktree(i)
         /\ outcome.tag = "Ok"
         /\ by_path.tag = "Ok") =>
            /\ by_path.name = outcome.name
            /\ by_path.path = outcome.path

====
